---- MODULE Spec2Model ----
(***************************************************************************)
(* A model of the datastore's hash-table stack: FilePager, the book's      *)
(* sections, the page / section / index registries, the write-ahead log    *)
(* and ManagedHashTable (open, insert, scan, quick_sync, full_sync), with  *)
(* the loss of the process state between any two steps.                    *)
(*                                                                         *)
(* Files are what survives the loss of the process: every write() that     *)
(* returned is in the file (the process is killed, the machine keeps       *)
(* running).  A u64 bloom filter is written as the set of its one-bits     *)
(* (OR is union, AND is intersection, 0 is the empty set).                 *)
(***************************************************************************)
EXTENDS Integers, Sequences, FiniteSets, TLC

\* ---------------------------------------------------------------- bounds
MaxInserts == 3
MaxCrashes == 1
MaxSyncs == 2

\* ------------------------------------------------- HashTableConfig fields
PageSize == 4
SectionCount == 2
IndexChunkSize == 10


\* ---------------------------------------------------------------- helpers
Min(a, b) == IF a <= b THEN a ELSE b
Max(a, b) == IF a >= b THEN a ELSE b
Take(s, n) == SubSeq(s, 1, n)
Drop(s, n) == SubSeq(s, n + 1, Len(s))
Zeros(n) == [i \in 1..n |-> 0]
\* F applied to the value of v, v evaluated once (let x = v; F(x))
Bind(v, F(_)) == CHOOSE r \in {F(x) : x \in {v}} : TRUE

\* the keys and values inserts and scans draw from: the empty key; <<2>> in
\* the same section as it with another bloom bit; <<2, 1>> that extends <<2>>
\* with the same section and bloom bit; <<1>> in the other section
Keys == {<<>>, <<1>>, <<2>>, <<2, 1>>}
Vals == {<<>>, <<9>>}

\* u32::to_le_bytes / u32::from_le_bytes
ToLeBytes(n) ==
    <<n % 256, (n \div 256) % 256, (n \div 65536) % 256, (n \div 16777216) % 256>>
FromLeBytes(b) == b[1] + 256 * b[2] + 65536 * b[3] + 16777216 * b[4]

\* ------------------------------------------------------------ PrefixHasher
HASH_BYTES == 4

PrefixHasherNew == [buffer |-> Zeros(HASH_BYTES), offset |-> 0]

PrefixHasherUpdate(h, data) ==
    LET len == Min(Len(data), HASH_BYTES - h.offset)
    IN  IF len = 0 THEN h
        ELSE [buffer |-> [i \in 1..HASH_BYTES |->
                            IF i > h.offset /\ i <= h.offset + len
                            THEN data[i - h.offset] ELSE h.buffer[i]],
              offset |-> h.offset + len]

PrefixHasherFinalize(h) == FromLeBytes(h.buffer)

Hash(key) == PrefixHasherFinalize(PrefixHasherUpdate(PrefixHasherNew, key))

\* insert / scan: hash % section_count, 1 << ((hash / section_count) % 64)
SectionOf(key) == Hash(key) % SectionCount
BloomIndex(key) == (Hash(key) \div SectionCount) % 64
BloomBit(key) == {BloomIndex(key)}

\* ------------------------------------------------------------------ state
VARIABLES
    pc,                \* ready, opened (loaded, before open's full_sync saves),
                       \* fs_page .. fs_clear (inside full_sync), crashed, open_failed
    pages_dat,         \* pages.dat, the pager's file, as bytes
    pages_reg,         \* pages.reg, the dense page table
    sections_reg,      \* sections.reg, the dense section table
    indexes_reg,       \* indexes.reg, the dense index table
    events_log,        \* events.log: [header, events, len]
    wal,               \* FileWALInner.height
    page_registry,     \* ManagedPageRegistry: [cache, map, hot]
    section_registry,  \* ManagedSectionRegistry: [cache, hot]
    index_registry,    \* ManagedIndexRegistry: [cache, map, hot]
    hist,              \* history: the entries inserted successfully, in order
    synced,            \* history: what the last completed wal.sync covered
    lost,              \* history: entries inserted after that sync, at the crash
    synced_regs,       \* history: the registries' tables at that sync
    failed,            \* history: <<end offset, event>> of what failed inserts recorded
    failures,
    pages,             \* PagerBook.inner.pages: PageKey -> pager_page_index
    sections,          \* PagerBookSection handles, one per thread
    pager,             \* the book's pager: page index -> bytes
    assigned,          \* history: every <<PageKey, pager_page_index>> put in pages
    content,           \* history: <<section, offset>> -> the byte last written there
    file_page,         \* a FilePage handle: [index, page_offset, file_offset]
    locks,             \* per thread: the call it is in, where, the locks it holds
    rwmap,             \* RwMapSyncInner: [next_claim_id, pending_claims, hold_claims]
    claimers,          \* per thread: where it stands in lock / try_lock / release
    kv,                \* KVStore: [open, metadata, file, heap, payloads, pairs]
    outcome,           \* the last call made on one component alone, and its result
    calls,             \* number of such calls so far
    inserts,           \* number of insert calls so far
    syncs,             \* number of quick_sync / full_sync calls so far
    crashes            \* number of losses of the process state so far

storeVars == <<pc, pages_dat, pages_reg, sections_reg, indexes_reg, events_log,
               wal, page_registry, section_registry, index_registry,
               hist, synced, lost, synced_regs, inserts, syncs, crashes,
               failed, failures>>
sideVars == <<file_page, locks, rwmap, claimers, kv>>
bookVars == <<pages, sections, pager, assigned, content, sideVars>>
callVars == <<outcome, calls>>
vars == <<storeVars, bookVars, callVars>>

\* ------------------------------------------------------------- FilePager
\* FilePage::write after seek(Start(page_offset)): at most to the end of the
\* page, extending the file (a hole reads as zeros).
FilePageWrite(dat, index, page_offset, buf) ==
    LET max_write_size == Min(PageSize - page_offset, Len(buf))
        file_offset == index * PageSize + page_offset
    IN  IF max_write_size = 0 THEN dat
        ELSE [i \in 1..Max(Len(dat), file_offset + max_write_size) |->
                IF i > file_offset /\ i <= file_offset + max_write_size
                THEN buf[i - file_offset]
                ELSE IF i <= Len(dat) THEN dat[i] ELSE 0]

\* FilePage::read after seek(Start(page_offset)): the bytes it returns; zeros
\* at or past the file size, a short read when the file ends inside the range.
FilePageRead(dat, index, page_offset, n) ==
    LET max_read_size == Min(PageSize - page_offset, n)
        file_offset == index * PageSize + page_offset
    IN  IF page_offset = PageSize \/ max_read_size = 0 THEN <<>>
        ELSE IF file_offset >= Len(dat) THEN Zeros(max_read_size)
        ELSE [i \in 1..Min(max_read_size, Len(dat) - file_offset) |->
                dat[file_offset + i]]

\* ------------------------------------------------------ write-ahead log
PageEvent(key, pager_page_index) ==
    [tag |-> 1, idx |-> pager_page_index, key |-> key, bloom |-> {}, off |-> 0]
SectionEvent(section_index, end_offset) ==
    [tag |-> 2, idx |-> section_index, key |-> <<0, 0>>, bloom |-> {},
     off |-> end_offset]
IndexEvent(cache_idx, key, bloom_filter, first_entry_offset) ==
    [tag |-> 3, idx |-> cache_idx, key |-> key, bloom |-> bloom_filter,
     off |-> first_entry_offset]

\* bytes HashTableEvent::write produces: the outer tag, the inner tag, payload
EventSize(e) == IF e.tag = 3 THEN 1 + 1 + 4 + 8 + 16 ELSE 1 + 1 + 4 + 8

WalStart == 8

RECURSIVE LogEnd(_)
LogEnd(events) ==
    IF events = <<>> THEN WalStart
    ELSE LogEnd(Take(events, Len(events) - 1)) + EventSize(events[Len(events)])

\* the events of the file that lie wholly below a byte offset
RECURSIVE EventsBelow(_, _)
EventsBelow(events, height) ==
    IF events = <<>> \/ LogEnd(events) <= height THEN events
    ELSE EventsBelow(Take(events, Len(events) - 1), height)

\* record that also stores the new height in bytes 0..8
FileWALRecordWritesHeader(m, e) ==
    LET height == m.wh
        position == height + EventSize(e)
    IN  IF m.rec_fail = 1 THEN [m EXCEPT !.err = TRUE, !.rec_fail = 0]
        ELSE [m EXCEPT !.log = [header |-> position,
                                events |-> Append(EventsBelow(@.events, height), e),
                                len |-> Max(@.len, position)],
                       !.wh = position,
                       !.rec_fail = IF @ > 1 THEN @ - 1 ELSE 0]

\* FileWAL::record: write the event at the in-memory height, advance it.
\* m carries what an operation reads and changes: pr, sr, ir (registries),
\* wh (wal height), log (events.log), dat (pages.dat), err, and rec_fail:
\* which of the record calls to come returns an error (0: none).  A record
\* that fails leaves the height where it was; what it may have written lies
\* past the height, where the next record writes and no reader reads.
FileWALRecord(m, e) ==
    LET height == m.wh
        position == height + EventSize(e)
    IN  IF m.rec_fail = 1 THEN [m EXCEPT !.err = TRUE, !.rec_fail = 0]
        ELSE [m EXCEPT !.log = [header |-> @.header,
                                events |-> Append(EventsBelow(@.events, height), e),
                                len |-> Max(@.len, position)],
                       !.wh = position,
                       !.rec_fail = IF @ > 1 THEN @ - 1 ELSE 0]

\* ---------------------------------------------------- ManagedPageRegistry
EmptyMap == [x \in {} |-> 0]
MapPut(f, k, v) == [x \in DOMAIN f \cup {k} |-> IF x = k THEN v ELSE f[x]]

\* apply taking an event beyond the end of the table as one at its end
PageApplyAppends(reg, e) ==
    [reg |-> [cache |-> IF Len(reg.cache) <= e.idx
                        THEN Append(reg.cache, e.key)
                        ELSE [reg.cache EXCEPT ![e.idx + 1] = e.key],
              map |-> MapPut(reg.map, e.key, e.idx),
              hot |-> Append(reg.hot, <<e.key, e.idx>>)],
     err |-> FALSE]

\* ManagedPageRegistry::apply; cache is 0-based in the source, 1-based here
PageApply(reg, e) ==
    IF Len(reg.cache) < e.idx THEN [reg |-> reg, err |-> TRUE]
    ELSE [reg |-> [cache |-> IF Len(reg.cache) = e.idx
                             THEN Append(reg.cache, e.key)
                             ELSE [reg.cache EXCEPT ![e.idx + 1] = e.key],
                   map |-> MapPut(reg.map, e.key, e.idx),
                   hot |-> Append(reg.hot, <<e.key, e.idx>>)],
          err |-> FALSE]

TryResolvePage(reg, key) == key \in DOMAIN reg.map

\* resolve_page without the lookup: every call takes cache.len()
ResolvePageNoLookup(m, key) ==
    LET pager_page_index == Len(m.pr.cache)
        event == PageEvent(key, pager_page_index)
        Applied(m1) == IF m1.err THEN m1 ELSE Bind(PageApply(m1.pr, event),
                            LAMBDA a : [m1 EXCEPT !.pr = a.reg, !.err = a.err])
    IN  Bind(FileWALRecord(m, event), Applied)

\* resolve_page applying the event before it records it
ResolvePageApplyFirst(m, key) ==
    IF TryResolvePage(m.pr, key) THEN m
    ELSE LET event == PageEvent(key, Len(m.pr.cache))
             Recorded(m1) == IF m1.err THEN m1 ELSE FileWALRecord(m1, event)
         IN  Bind(Bind(PageApply(m.pr, event),
                       LAMBDA a : [m EXCEPT !.pr = a.reg, !.err = a.err]),
                  Recorded)

\* ManagedPageRegistry::resolve_page: a miss takes cache.len(), records the
\* event, then applies it
ResolvePage(m, key) ==
    IF TryResolvePage(m.pr, key) THEN m
    ELSE LET pager_page_index == Len(m.pr.cache)
             event == PageEvent(key, pager_page_index)
             Applied(m1) == IF m1.err THEN m1 ELSE Bind(PageApply(m1.pr, event),
                                 LAMBDA a : [m1 EXCEPT !.pr = a.reg, !.err = a.err])
         IN  Bind(FileWALRecord(m, event), Applied)

\* ------------------------------------------------------- PagerBookSection
\* One Read::read call at section_offset with a buffer of n bytes: never
\* across a page boundary, zeros where no page is mapped.
SectionRead(reg, dat, section_index, section_offset, n) ==
    LET page_offset == section_offset % PageSize
        max_read_size == Min(n, PageSize - page_offset)
        page_key == <<section_index, section_offset \div PageSize>>
    IN  IF TryResolvePage(reg, page_key)
        THEN FilePageRead(dat, reg.map[page_key], page_offset, max_read_size)
        ELSE Zeros(max_read_size)

\* Read::read_exact: read calls until n bytes are there
RECURSIVE ReadExact(_, _, _, _, _)
ReadExact(reg, dat, section_index, section_offset, n) ==
    IF n = 0 THEN <<>>
    ELSE LET got == SectionRead(reg, dat, section_index, section_offset, n)
         IN  got \o ReadExact(reg, dat, section_index,
                              section_offset + Len(got), n - Len(got))

\* One Write::write call: the page is taken from the registry or assigned,
\* then written up to its end.  Returns the new m and the bytes written.
SectionWrite(m, section_index, section_offset, buf) ==
    LET page_offset == section_offset % PageSize
        max_write_size == Min(Len(buf), PageSize - page_offset)
        page_key == <<section_index, section_offset \div PageSize>>
        Written(m1) ==
            IF m1.err THEN [m |-> m1, written |-> 0]
            ELSE [m |-> [m1 EXCEPT !.dat = FilePageWrite(@, m1.pr.map[page_key],
                                         page_offset, Take(buf, max_write_size))],
                  written |-> max_write_size]
    IN  Bind(ResolvePage(m, page_key), Written)

\* Write::write_all: write calls until the buffer is empty
RECURSIVE WriteAll(_, _, _, _)
WriteAll(m, section_index, section_offset, buf) ==
    IF buf = <<>> \/ m.err THEN m
    ELSE Bind(SectionWrite(m, section_index, section_offset, buf),
              LAMBDA w : IF w.m.err THEN w.m
                         ELSE WriteAll(w.m, section_index,
                                       section_offset + w.written,
                                       Drop(buf, w.written)))

\* apply that does not note the index as hot
SectionApplyNotesNothing(reg, e) ==
    IF Len(reg.cache) <= e.idx THEN [reg |-> reg, err |-> TRUE]
    ELSE [reg |-> [cache |-> [reg.cache EXCEPT ![e.idx + 1] = e.off],
                   hot |-> reg.hot],
          err |-> FALSE]

\* ------------------------------------------------- ManagedSectionRegistry
SectionApply(reg, e) ==
    IF Len(reg.cache) <= e.idx THEN [reg |-> reg, err |-> TRUE]
    ELSE [reg |-> [cache |-> [reg.cache EXCEPT ![e.idx + 1] = e.off],
                   hot |-> reg.hot \cup {e.idx}],
          err |-> FALSE]

\* resolve_section: the end_offset, or not found
ResolveSection(reg, section_index) == reg.cache[section_index + 1]

\* update_section_end_offset with the comparison the other way round
UpdateSectionEndOffsetInverted(m, section_index, end_offset) ==
    IF section_index >= Len(m.sr.cache) THEN [m EXCEPT !.err = TRUE]
    ELSE IF m.sr.cache[section_index + 1] <= end_offset THEN m
    ELSE LET event == SectionEvent(section_index, end_offset)
             Applied(m1) == IF m1.err THEN m1 ELSE Bind(SectionApply(m1.sr, event),
                                 LAMBDA a : [m1 EXCEPT !.sr = a.reg, !.err = a.err])
         IN  Bind(FileWALRecord(m, event), Applied)

\* update_section_end_offset without the comparison
UpdateSectionEndOffsetAlways(m, section_index, end_offset) ==
    IF section_index >= Len(m.sr.cache) THEN [m EXCEPT !.err = TRUE]
    ELSE LET event == SectionEvent(section_index, end_offset)
             Applied(m1) == IF m1.err THEN m1 ELSE Bind(SectionApply(m1.sr, event),
                                 LAMBDA a : [m1 EXCEPT !.sr = a.reg, !.err = a.err])
         IN  Bind(FileWALRecord(m, event), Applied)

\* update_section_end_offset: nothing when the stored end is not smaller
UpdateSectionEndOffset(m, section_index, end_offset) ==
    IF section_index >= Len(m.sr.cache) THEN [m EXCEPT !.err = TRUE]
    ELSE IF m.sr.cache[section_index + 1] >= end_offset THEN m
    ELSE LET event == SectionEvent(section_index, end_offset)
             Applied(m1) == IF m1.err THEN m1 ELSE Bind(SectionApply(m1.sr, event),
                                 LAMBDA a : [m1 EXCEPT !.sr = a.reg, !.err = a.err])
         IN  Bind(FileWALRecord(m, event), Applied)

\* --------------------------------------------------- ManagedIndexRegistry
IndexEntry(key, bloom_filter, first_entry_offset) ==
    [key |-> key, bloom_filter |-> bloom_filter,
     first_entry_offset |-> first_entry_offset]

\* apply that pushes every event as a new entry
IndexApplyAlwaysPushes(reg, e) ==
    IF Len(reg.cache) < e.idx THEN [reg |-> reg, err |-> TRUE]
    ELSE LET entry == IndexEntry(e.key, e.bloom, e.off)
         IN  [reg |-> [cache |-> Append(reg.cache, entry),
                       map |-> MapPut(reg.map, e.key, e.idx),
                       hot |-> reg.hot \cup {e.idx}],
              err |-> FALSE]

IndexApply(reg, e) ==
    IF Len(reg.cache) < e.idx THEN [reg |-> reg, err |-> TRUE]
    ELSE LET entry == IndexEntry(e.key, e.bloom, e.off)
         IN  [reg |-> [cache |-> IF Len(reg.cache) = e.idx
                                 THEN Append(reg.cache, entry)
                                 ELSE [reg.cache EXCEPT ![e.idx + 1] = entry],
                       map |-> MapPut(reg.map, e.key, e.idx),
                       hot |-> reg.hot \cup {e.idx}],
              err |-> FALSE]

NoIndex == [key |-> <<0, 0>>, bloom_filter |-> {}, first_entry_offset |-> 0,
            some |-> FALSE]
SomeIndex(entry) == [key |-> entry.key, bloom_filter |-> entry.bloom_filter,
                     first_entry_offset |-> entry.first_entry_offset,
                     some |-> TRUE]

TryResolveIndex(reg, index_key) ==
    IF index_key \in DOMAIN reg.map
    THEN SomeIndex(reg.cache[reg.map[index_key] + 1])
    ELSE NoIndex

\* IndexKey's derived order: section_index first, then index_chunk
KeyLess(a, b) == a[1] < b[1] \/ (a[1] = b[1] /\ a[2] < b[2])

\* try_resolve_next_index with a range that is open above
TryResolveNextIndexUnbounded(reg, index_key) ==
    LET range == {k \in DOMAIN reg.map : KeyLess(index_key, k)}
    IN  IF range = {} THEN NoIndex
        ELSE LET first == CHOOSE k \in range : \A o \in range : o = k \/ KeyLess(k, o)
             IN  SomeIndex(reg.cache[reg.map[first] + 1])

\* try_resolve_next_index: the first key of map.range((Excluded(index_key),
\* Excluded((section_index + 1, 0))))
TryResolveNextIndex(reg, index_key) ==
    LET upper == <<index_key[1] + 1, 0>>
        range == {k \in DOMAIN reg.map : KeyLess(index_key, k) /\ KeyLess(k, upper)}
    IN  IF range = {} THEN NoIndex
        ELSE LET first == CHOOSE k \in range : \A o \in range : o = k \/ KeyLess(k, o)
             IN  SomeIndex(reg.cache[reg.map[first] + 1])

\* record the event, then apply it
IndexRecordApply(m, event) ==
    LET Applied(m1) == IF m1.err THEN m1 ELSE Bind(IndexApply(m1.ir, event),
                            LAMBDA a : [m1 EXCEPT !.ir = a.reg, !.err = a.err])
    IN  Bind(FileWALRecord(m, event), Applied)

\* update_index_bloom_filter storing the bit in place of the filter
UpdateIndexBloomFilterReplaces(m, index_key, entry_offset, bloom_bit) ==
    IF index_key \in DOMAIN m.ir.map
    THEN LET cache_idx == m.ir.map[index_key]
             header == m.ir.cache[cache_idx + 1]
             old_bloom_filter == header.bloom_filter
             new_bloom_filter == old_bloom_filter \cup bloom_bit
         IN  IF new_bloom_filter = old_bloom_filter THEN m
             ELSE IndexRecordApply(m, IndexEvent(cache_idx, index_key,
                                       bloom_bit, header.first_entry_offset))
    ELSE IndexRecordApply(m, IndexEvent(Len(m.ir.cache), index_key, bloom_bit,
                                        entry_offset))

\* update_index_bloom_filter taking the new entry's offset for a chunk that
\* exists
UpdateIndexBloomFilterMovesFirst(m, index_key, entry_offset, bloom_bit) ==
    IF index_key \in DOMAIN m.ir.map
    THEN LET cache_idx == m.ir.map[index_key]
             header == m.ir.cache[cache_idx + 1]
             old_bloom_filter == header.bloom_filter
             new_bloom_filter == old_bloom_filter \cup bloom_bit
         IN  IF new_bloom_filter = old_bloom_filter THEN m
             ELSE IndexRecordApply(m, IndexEvent(cache_idx, index_key,
                                       new_bloom_filter, entry_offset))
    ELSE IndexRecordApply(m, IndexEvent(Len(m.ir.cache), index_key, bloom_bit,
                                        entry_offset))

\* update_index_bloom_filter leaving a chunk that exists as it is
UpdateIndexBloomFilterNewOnly(m, index_key, entry_offset, bloom_bit) ==
    IF index_key \in DOMAIN m.ir.map THEN m
    ELSE IndexRecordApply(m, IndexEvent(Len(m.ir.cache), index_key, bloom_bit,
                                        entry_offset))

UpdateIndexBloomFilter(m, index_key, entry_offset, bloom_bit) ==
    IF index_key \in DOMAIN m.ir.map
    THEN LET cache_idx == m.ir.map[index_key]
             header == m.ir.cache[cache_idx + 1]
             old_bloom_filter == header.bloom_filter
             new_bloom_filter == old_bloom_filter \cup bloom_bit
         IN  IF new_bloom_filter = old_bloom_filter THEN m
             ELSE IndexRecordApply(m, IndexEvent(cache_idx, index_key,
                                       new_bloom_filter, header.first_entry_offset))
    ELSE IndexRecordApply(m, IndexEvent(Len(m.ir.cache), index_key, bloom_bit,
                                        entry_offset))

\* ------------------------------------------------- BookHashTable::insert
\* fail_at names the call of insert whose `?` returns an error: 1..4 the
\* four write_all, 5 update_section_end_offset, 6 update_index_bloom_filter;
\* NoFailure for none.
NoFailure == 0

HashTableInsertOrFail(m, key, value, fail_at) ==
    LET section_index == SectionOf(key)
        bloom_bit == BloomBit(key)
        entry_offset == ResolveSection(m.sr, section_index)
        index_key == <<section_index, entry_offset \div IndexChunkSize>>
        key_size == Len(key)
        value_size == Len(value)
        new_end == entry_offset + 8 + key_size + value_size
        WriteKeySize(x) ==
            WriteAll(x, section_index, entry_offset, ToLeBytes(key_size))
        WriteValueSize(x) ==
            WriteAll(x, section_index, entry_offset + 4, ToLeBytes(value_size))
        WriteKey(x) == WriteAll(x, section_index, entry_offset + 8, key)
        WriteValue(x) ==
            WriteAll(x, section_index, entry_offset + 8 + key_size, value)
        UpdateEnd(x) == UpdateSectionEndOffset(x, section_index, new_end)
        UpdateBloom(x) ==
            UpdateIndexBloomFilter(x, index_key, entry_offset, bloom_bit)
        Try(call, F(_), x) ==
            IF x.err THEN x
            ELSE IF call = fail_at THEN [x EXCEPT !.err = TRUE]
            ELSE F(x)
    IN  Bind(Bind(Bind(Bind(Bind(Bind(m,
            LAMBDA x : Try(1, WriteKeySize, x)),
            LAMBDA x : Try(2, WriteValueSize, x)),
            LAMBDA x : Try(3, WriteKey, x)),
            LAMBDA x : Try(4, WriteValue, x)),
            LAMBDA x : Try(5, UpdateEnd, x)),
            LAMBDA x : Try(6, UpdateBloom, x))

HashTableInsert(m, key, value) == HashTableInsertOrFail(m, key, value, NoFailure)

\* ------------------------------------------------------- SectionScanner
NoBloom == [some |-> FALSE, bit |-> {}]
SomeBloom(bit) == [some |-> TRUE, bit |-> bit]

SectionScannerNew(section_index, section_end, bloom_query) ==
    [section_index |-> section_index, section_end |-> section_end,
     bloom_query |-> bloom_query, index_chunk |-> NoIndex, position |-> 0]

\* ScannerSkip with the next chunk of the section ignored: a chunk whose
\* filter lacks the bit ends the section
ScannerSkipToEnd(env, sc, index_key, index_chunk) ==
    IF /\ sc.bloom_query.some
       /\ index_chunk.some
       /\ index_chunk.bloom_filter \cap sc.bloom_query.bit = {}
    THEN sc.section_end
    ELSE sc.position

\* ScannerSkip going one byte past section_end when no chunk follows
ScannerSkipPastEnd(env, sc, index_key, index_chunk) ==
    IF /\ sc.bloom_query.some
       /\ index_chunk.some
       /\ index_chunk.bloom_filter \cap sc.bloom_query.bit = {}
    THEN Bind(TryResolveNextIndex(env.ir, index_key),
              LAMBDA next_index_header :
                  IF next_index_header.some
                  THEN next_index_header.first_entry_offset
                  ELSE sc.section_end + 1)
    ELSE sc.position

\* the position the scanner reads at: the handle's, or past a chunk whose
\* bloom filter lacks the queried bit
ScannerSkip(env, sc, index_key, index_chunk) ==
    IF /\ sc.bloom_query.some
       /\ index_chunk.some
       /\ index_chunk.bloom_filter \cap sc.bloom_query.bit = {}
    THEN Bind(TryResolveNextIndex(env.ir, index_key),
              LAMBDA next_index_header :
                  IF next_index_header.some
                  THEN next_index_header.first_entry_offset
                  ELSE sc.section_end)
    ELSE sc.position

\* ScannerRead whose seek goes back to where the entry starts
ScannerReadSeeksBack(env, sc, index_chunk, position) ==
    LET none == [section_index |-> sc.section_index, reader |-> 0,
                 key_size |-> 0, value_size |-> 0]
        Entry(key_size, value_size) ==
            [sc |-> [sc EXCEPT !.index_chunk = index_chunk,
                               !.position = position],
             result |-> "entry",
             entry |-> [section_index |-> sc.section_index,
                        reader |-> position + 8,
                        key_size |-> key_size, value_size |-> value_size]]
    IN  IF position > sc.section_end
        THEN [sc |-> [sc EXCEPT !.index_chunk = index_chunk, !.position = position],
              result |-> "err", entry |-> none]
        ELSE IF position = sc.section_end
        THEN [sc |-> [sc EXCEPT !.index_chunk = index_chunk, !.position = position],
              result |-> "none", entry |-> none]
        ELSE Bind(<<FromLeBytes(ReadExact(env.pr, env.dat, sc.section_index,
                                          position, 4)),
                    FromLeBytes(ReadExact(env.pr, env.dat, sc.section_index,
                                          position + 4, 4))>>,
                  LAMBDA sizes : Entry(sizes[1], sizes[2]))

\* what is done at that position: the comparison with section_end, the two
\* sizes, the clone handed out as the entry's reader, the seek past the entry
ScannerRead(env, sc, index_chunk, position) ==
    LET none == [section_index |-> sc.section_index, reader |-> 0,
                 key_size |-> 0, value_size |-> 0]
        Entry(key_size, value_size) ==
            [sc |-> [sc EXCEPT !.index_chunk = index_chunk,
                               !.position = position + 8 + (key_size + value_size)],
             result |-> "entry",
             entry |-> [section_index |-> sc.section_index,
                        reader |-> position + 8,
                        key_size |-> key_size, value_size |-> value_size]]
    IN  IF position > sc.section_end
        THEN [sc |-> [sc EXCEPT !.index_chunk = index_chunk, !.position = position],
              result |-> "err", entry |-> none]
        ELSE IF position = sc.section_end
        THEN [sc |-> [sc EXCEPT !.index_chunk = index_chunk, !.position = position],
              result |-> "none", entry |-> none]
        ELSE Bind(<<FromLeBytes(ReadExact(env.pr, env.dat, sc.section_index,
                                          position, 4)),
                    FromLeBytes(ReadExact(env.pr, env.dat, sc.section_index,
                                          position + 4, 4))>>,
                  LAMBDA sizes : Entry(sizes[1], sizes[2]))

\* SectionScanner::next over env = [pr, ir, dat].  result is "entry", "none"
\* or "err"; position is the section handle's offset after the call.
SectionScannerNext(env, sc) ==
    LET index_key == <<sc.section_index, sc.position \div IndexChunkSize>>
        none == [section_index |-> sc.section_index, reader |-> 0,
                 key_size |-> 0, value_size |-> 0]
        Cached(index_chunk) ==
            IF sc.bloom_query.some /\ ~index_chunk.some
            THEN [sc |-> [sc EXCEPT !.index_chunk = index_chunk],
                  result |-> "none", entry |-> none]
            ELSE Bind(ScannerSkip(env, sc, index_key, index_chunk),
                      LAMBDA position : ScannerRead(env, sc, index_chunk, position))
    IN  Bind(IF ~sc.bloom_query.some THEN sc.index_chunk
             ELSE IF sc.index_chunk.some /\ sc.index_chunk.key = index_key
                  THEN sc.index_chunk
                  ELSE TryResolveIndex(env.ir, index_key),
             Cached)

\* ScannerEntry::key and ::value read to the end: a clone of the reader,
\* limited to key_size bytes; a clone moved past the key, limited to value_size
EntryKey(env, e) == ReadExact(env.pr, env.dat, e.section_index, e.reader, e.key_size)
EntryValue(env, e) ==
    ReadExact(env.pr, env.dat, e.section_index, e.reader + e.key_size, e.value_size)

\* key() that reads through the entry's reader instead of a clone of it
ScannerEntryKeyMovesReader(env, e) ==
    [entry |-> [e EXCEPT !.reader = @ + e.key_size], bytes |-> EntryKey(env, e)]

\* ScannerEntry::key and ::value as calls on the entry: the entry after the
\* call and the bytes the reader returns when read to its end
ScannerEntryKey(env, e) == [entry |-> e, bytes |-> EntryKey(env, e)]
ScannerEntryValue(env, e) == [entry |-> e, bytes |-> EntryValue(env, e)]

\* FilterScanner.key_buffer
KEY_BUFFER == 256

\* KeyFilter with an exhausted key reader accepted whatever is left of the
\* expected key
RECURSIVE KeyFilterPrefix(_, _, _, _, _)
KeyFilterPrefix(env, section_index, offset, limit, expected_key) ==
    LET buf == IF limit = 0 THEN <<>>
               ELSE SectionRead(env.pr, env.dat, section_index, offset,
                                Min(KEY_BUFFER, limit))
        read_size == Len(buf)
    IN  IF read_size = 0 THEN TRUE
        ELSE IF read_size > Len(expected_key) THEN FALSE
        ELSE IF buf # Take(expected_key, read_size) THEN FALSE
        ELSE KeyFilterPrefix(env, section_index, offset + read_size,
                             limit - read_size, Drop(expected_key, read_size))

\* FilterScanner::next, the Key arm: the key reader is read in chunks of at
\* most the buffer and never across a page; limit is what Take has left
RECURSIVE KeyFilter(_, _, _, _, _)
KeyFilter(env, section_index, offset, limit, expected_key) ==
    LET buf == IF limit = 0 THEN <<>>
               ELSE SectionRead(env.pr, env.dat, section_index, offset,
                                Min(KEY_BUFFER, limit))
        read_size == Len(buf)
    IN  IF read_size = 0 THEN expected_key = <<>>
        ELSE IF read_size > Len(expected_key) THEN FALSE
        ELSE IF buf # Take(expected_key, read_size) THEN FALSE
        ELSE KeyFilter(env, section_index, offset + read_size, limit - read_size,
                       Drop(expected_key, read_size))

\* filter: [all |-> TRUE] or [all |-> FALSE, key |-> k]
FilterAll == [all |-> TRUE, key |-> <<>>]
FilterKey(k) == [all |-> FALSE, key |-> k]

FilterAccepts(env, filter, e) ==
    filter.all \/ KeyFilter(env, e.section_index, e.reader, e.key_size, filter.key)

\* one section scanner driven to its end: the entries the filter lets
\* through, as the (key, value) bytes their readers return
RECURSIVE DrainSection(_, _, _)
DrainSection(env, filter, sc) ==
    LET Yield(n) ==
            IF n.result = "none" THEN [entries |-> <<>>, err |-> FALSE]
            ELSE IF n.result = "err" THEN [entries |-> <<>>, err |-> TRUE]
            ELSE LET here == IF FilterAccepts(env, filter, n.entry)
                             THEN <<[key |-> EntryKey(env, n.entry),
                                     value |-> EntryValue(env, n.entry)]>>
                             ELSE <<>>
                 IN  Bind(DrainSection(env, filter, n.sc),
                          LAMBDA rest : [entries |-> here \o rest.entries,
                                         err |-> rest.err])
    IN  Bind(SectionScannerNext(env, sc), Yield)

\* DrainMany ending with the first section scanner instead of moving on
DrainFirst(env, filter, from) ==
    IF from >= SectionCount THEN [entries |-> <<>>, err |-> FALSE]
    ELSE DrainSection(env, filter,
                      SectionScannerNew(from, ResolveSection(env.sr, from), NoBloom))

\* MultiSectionScanner over sections from..SectionCount-1 (the Many iterator)
RECURSIVE DrainMany(_, _, _)
DrainMany(env, filter, from) ==
    IF from >= SectionCount THEN [entries |-> <<>>, err |-> FALSE]
    ELSE LET sc == SectionScannerNew(from, ResolveSection(env.sr, from), NoBloom)
             Rest(one) ==
                 IF one.err THEN one
                 ELSE Bind(DrainMany(env, filter, from + 1),
                           LAMBDA rest : [entries |-> one.entries \o rest.entries,
                                          err |-> rest.err])
         IN  Bind(DrainSection(env, filter, sc), Rest)

\* BookHashTable::scan followed by next() until None or an error
Scan(env, filter) ==
    IF filter.all THEN DrainMany(env, filter, 0)
    ELSE LET index == SectionOf(filter.key)
             end_offset == ResolveSection(env.sr, index)
         IN  IF end_offset > 0
             THEN DrainSection(env, filter,
                     SectionScannerNew(index, end_offset,
                                       SomeBloom(BloomBit(filter.key))))
             ELSE [entries |-> <<>>, err |-> FALSE]

\* ------------------------------------------------ dense files: save, load
PutAt(file, index, x, zero) ==
    [i \in 1..Max(Len(file), index + 1) |->
        IF i = index + 1 THEN x ELSE IF i <= Len(file) THEN file[i] ELSE zero]

\* ManagedPageRegistry::save: every hot (key, index) written at index * 8
RECURSIVE PageSaveFile(_, _)
PageSaveFile(file, hot) ==
    IF hot = <<>> THEN file
    ELSE PageSaveFile(PutAt(file, hot[1][2], hot[1][1], <<0, 0>>), Drop(hot, 1))

\* a save that writes the headers of no section
SectionSaveFileNone(file, reg) == file

\* ManagedSectionRegistry::save: every hot section's header at index * 8
SectionSaveFile(file, reg) ==
    [i \in 1..Len(file) |-> IF (i - 1) \in reg.hot THEN reg.cache[i] ELSE file[i]]

\* ManagedIndexRegistry::save: every hot cache entry at cache_idx * 24
IndexSaveFile(file, reg) ==
    LET top == IF reg.hot = {} THEN 0
               ELSE (CHOOSE h \in reg.hot : \A o \in reg.hot : o <= h) + 1
    IN  [i \in 1..Max(Len(file), top) |->
            IF (i - 1) \in reg.hot THEN reg.cache[i]
            ELSE IF i <= Len(file) THEN file[i]
            ELSE IndexEntry(<<0, 0>>, {}, 0)]

\* the map collected from a dense table: key -> position, the last one wins
MapOfCache(keys) ==
    [k \in {keys[i] : i \in 1..Len(keys)} |->
        (CHOOSE i \in 1..Len(keys) :
            keys[i] = k /\ \A j \in 1..Len(keys) : keys[j] = k => j <= i) - 1]

\* FileWAL::load without the comparison of the stored height with the length
FileWALLoadNoUpperCheck(file) ==
    IF file.len = 0
    THEN [file |-> [file EXCEPT !.header = WalStart, !.len = WalStart],
          height |-> WalStart, err |-> FALSE]
    ELSE IF file.len < WalStart THEN [file |-> file, height |-> 0, err |-> TRUE]
    ELSE IF file.header < WalStart
         THEN [file |-> file, height |-> 0, err |-> TRUE]
         ELSE [file |-> file, height |-> file.header, err |-> FALSE]

\* FileWAL::load: an empty file gets 8 in bytes 0..8; a file shorter than 8
\* bytes fails in read_exact, a stored height outside 8..len is invalid data
FileWALLoad(file) ==
    IF file.len = 0
    THEN [file |-> [file EXCEPT !.header = WalStart, !.len = WalStart],
          height |-> WalStart, err |-> FALSE]
    ELSE IF file.len < WalStart THEN [file |-> file, height |-> 0, err |-> TRUE]
    ELSE IF file.header < WalStart \/ file.header > file.len
         THEN [file |-> file, height |-> 0, err |-> TRUE]
         ELSE [file |-> file, height |-> file.header, err |-> FALSE]

\* FileWALReader::read_next until it returns None or an error: at the height
\* None, past it an error, below it the next event of the file (an error
\* when the file has no whole event there)
RECURSIVE FileWALReaderReadAll(_, _, _, _)
FileWALReaderReadAll(events, height, position, read) ==
    IF position = height THEN [events |-> read, err |-> FALSE]
    ELSE IF position > height THEN [events |-> read, err |-> TRUE]
    ELSE IF Len(read) >= Len(events) THEN [events |-> read, err |-> TRUE]
    ELSE LET event == events[Len(read) + 1]
         IN  FileWALReaderReadAll(events, height, position + EventSize(event),
                                  Append(read, event))

\* FileWALReader::new, then read_next to the end: an empty file has height
\* None and no events; a height outside 8..len is invalid data
WalReplay(log) ==
    IF log.len = 0 THEN [events |-> <<>>, err |-> FALSE]
    ELSE IF log.len < WalStart \/ log.header < WalStart \/ log.header > log.len
    THEN [events |-> <<>>, err |-> TRUE]
    ELSE FileWALReaderReadAll(log.events, log.header, WalStart, <<>>)

\* FilterMapWALReader: the events of one registry, in log order
RECURSIVE OfTag(_, _)
OfTag(events, tag) ==
    IF events = <<>> THEN <<>>
    ELSE (IF events[1].tag = tag THEN <<events[1]>> ELSE <<>>)
         \o OfTag(Drop(events, 1), tag)

RECURSIVE PageReplay(_, _)
PageReplay(r, events) ==
    IF events = <<>> \/ r.err THEN r
    ELSE PageReplay(PageApply(r.reg, events[1]), Drop(events, 1))

RECURSIVE SectionReplay(_, _)
SectionReplay(r, events) ==
    IF events = <<>> \/ r.err THEN r
    ELSE SectionReplay(SectionApply(r.reg, events[1]), Drop(events, 1))

RECURSIVE IndexReplay(_, _)
IndexReplay(r, events) ==
    IF events = <<>> \/ r.err THEN r
    ELSE IndexReplay(IndexApply(r.reg, events[1]), Drop(events, 1))

\* ManagedPageRegistry::load with the old log: the dense table, then replay
PageLoad(file, events) ==
    PageReplay([reg |-> [cache |-> file, map |-> MapOfCache(file), hot |-> <<>>],
                err |-> FALSE], OfTag(events, 1))

\* ManagedSectionRegistry::load: set_len(section_count * 8), read, replay
SectionLoad(file, events) ==
    SectionReplay([reg |-> [cache |-> [i \in 1..SectionCount |->
                                         IF i <= Len(file) THEN file[i] ELSE 0],
                            hot |-> {}],
                   err |-> FALSE], OfTag(events, 2))

\* ManagedIndexRegistry::load: the dense table, then replay
IndexLoad(file, events) ==
    IndexReplay([reg |-> [cache |-> file,
                          map |-> MapOfCache([i \in 1..Len(file) |-> file[i].key]),
                          hot |-> {}],
                 err |-> FALSE], OfTag(events, 3))

\* ---------------------------------------------------------- PagerBook
\* Threads that each hold one section handle of the same book.
MaxThreads == 2
Threads == 1..MaxThreads

\* the offsets a handle is used at
MaxBookPages == 2

\* Book::section: current_page None, section_offset 0.  step is where the
\* thread stands inside write: "idle", "assign" (get_or_assign_current_page
\* past try_fetch_current_page with no page) or "page" (about to write to it)
NoPage == <<>>
PagerBookSectionNew(section_index) ==
    [section_index |-> section_index, current_page |-> NoPage,
     section_offset |-> 0, step |-> "idle"]

NoCall == [op |-> "none"]

\* --------------------------------------------------------------- actions
M == [pr |-> page_registry, sr |-> section_registry, ir |-> index_registry,
      wh |-> wal, log |-> events_log, dat |-> pages_dat, err |-> FALSE,
      rec_fail |-> 0]

Env == [pr |-> page_registry, sr |-> section_registry, ir |-> index_registry,
        dat |-> pages_dat]

\* the tables of the three registries, without their hot sets
Tables ==
    [page |-> [cache |-> page_registry.cache, map |-> page_registry.map],
     section |-> section_registry.cache,
     index |-> [cache |-> index_registry.cache, map |-> index_registry.map]]

Live == pc \notin {"crashed", "open_failed"}

\* a thread outside every call; RwMap::new; a thread with no claim
MaxLockThreads == 3
MaxClaimers == 3
Claimers == 1..MaxClaimers
LockThreads == 1..MaxLockThreads
NoLocks == [op |-> "idle", at |-> 0, held |-> {}]
RwMapNew == [next_claim_id |-> 0, pending_claims |-> {}, hold_claims |-> {}]
NoClaim == [pc |-> "idle", claim_id |-> 0, lo |-> 0, hi |-> 0, writer |-> FALSE, try |-> FALSE]

\* no KVStore opened, no heap made
KVClosed == [open |-> "closed", metadata |-> [revision |-> 0, page_count |-> 0],
             file |-> [revision |-> 0, page_count |-> 0], heap |-> <<>>,
             payloads |-> <<>>, pairs |-> <<>>]

NoPageRegistry == [cache |-> <<>>, map |-> EmptyMap, hot |-> <<>>]
NoSectionRegistry == [cache |-> <<>>, hot |-> {}]
NoIndexRegistry == [cache |-> <<>>, map |-> EmptyMap, hot |-> {}]

\* the state ManagedHashTable::open leaves in a fresh directory
Init ==
    /\ pc = "ready"
    /\ pages_dat = <<>>
    /\ pages_reg = <<>>
    /\ sections_reg = [i \in 1..SectionCount |-> 0]
    /\ indexes_reg = <<>>
    /\ events_log = [header |-> WalStart, events |-> <<>>, len |-> WalStart]
    /\ wal = WalStart
    /\ page_registry = NoPageRegistry
    /\ section_registry = [cache |-> [i \in 1..SectionCount |-> 0], hot |-> {}]
    /\ index_registry = NoIndexRegistry
    /\ hist = <<>>
    /\ synced = <<>>
    /\ synced_regs = Tables
    /\ lost = <<>>
    /\ inserts = 0
    /\ syncs = 0
    /\ crashes = 0
    /\ failed = {}
    /\ failures = 0
    /\ pages = EmptyMap
    /\ sections = [t \in Threads |-> PagerBookSectionNew(0)]
    /\ pager = <<>>
    /\ assigned = {}
    /\ content = EmptyMap
    /\ file_page = NoPage
    /\ locks = [t \in LockThreads |-> NoLocks]
    /\ rwmap = RwMapNew
    /\ claimers = [c \in Claimers |-> NoClaim]
    /\ kv = KVClosed
    /\ outcome = NoCall
    /\ calls = 0

\* ManagedHashTable::insert returning Ok
Insert(key, value) ==
    /\ pc = "ready"
    /\ inserts < MaxInserts
    /\ \E m \in {HashTableInsert(M, key, value)} :
           /\ ~m.err
           /\ page_registry' = m.pr
           /\ section_registry' = m.sr
           /\ index_registry' = m.ir
           /\ wal' = m.wh
           /\ events_log' = m.log
           /\ pages_dat' = m.dat
    /\ hist' = Append(hist, [key |-> key, value |-> value])
    /\ inserts' = inserts + 1
    /\ UNCHANGED <<pc, pages_reg, sections_reg, indexes_reg, synced, lost,
                   synced_regs, syncs,
                   crashes>>
    /\ UNCHANGED <<failed, failures, bookVars, callVars>>

\* the events of a log file with the offsets they end at
LogPositions(events) ==
    {<<LogEnd(Take(events, i)), events[i]>> : i \in 1..Len(events)}

\* ManagedHashTable::insert returning Err from one of its six calls: what
\* the calls before it did stays.  A failed insert takes two of MaxInserts.
MaxFailures == 1
InsertFail(key, value, fail_at) ==
    /\ pc = "ready"
    /\ inserts + 1 < MaxInserts
    /\ failures < MaxFailures
    /\ \E m \in {HashTableInsertOrFail(M, key, value, fail_at)} :
           /\ m.err
           /\ page_registry' = m.pr
           /\ section_registry' = m.sr
           /\ index_registry' = m.ir
           /\ wal' = m.wh
           /\ events_log' = m.log
           /\ pages_dat' = m.dat
           /\ failed' = failed \cup {p \in LogPositions(m.log.events) : p[1] > wal}
    /\ inserts' = inserts + 2
    /\ failures' = failures + 1
    /\ UNCHANGED <<pc, pages_reg, sections_reg, indexes_reg, hist, synced, lost,
                   synced_regs, syncs, crashes, bookVars, callVars>>

\* sync leaving bytes 0..8 as they are
FileWALSyncNoHeader(log, height) == log

\* FileWAL::sync: the in-memory height goes to bytes 0..8
FileWALSync(log, height) == [log EXCEPT !.header = height]

\* clear resetting the in-memory height only
FileWALClearKeepsHeader(log) == log

\* clear that also cuts the file back to its 8 header bytes
FileWALClearTruncates(log) ==
    [header |-> WalStart, events |-> <<>>, len |-> WalStart]

\* FileWAL::clear: 8 goes to bytes 0..8, the length stays
FileWALClear(log) == [log EXCEPT !.header = WalStart]

\* ManagedHashTable::quick_sync: pager.sync, then wal.sync
QuickSync ==
    /\ pc = "ready"
    /\ syncs < MaxSyncs
    /\ syncs' = syncs + 1
    /\ events_log' = FileWALSync(events_log, wal)
    /\ synced' = hist
    /\ synced_regs' = Tables
    /\ UNCHANGED <<pc, pages_dat, pages_reg, sections_reg, indexes_reg, wal,
                   page_registry, section_registry, index_registry,
                   hist, lost, inserts, crashes>>
    /\ UNCHANGED <<failed, failures, bookVars, callVars>>

\* ManagedHashTable::full_sync, step by step: quick_sync ...
FullSyncBegin ==
    /\ pc = "ready"
    /\ syncs < MaxSyncs
    /\ syncs' = syncs + 1
    /\ events_log' = FileWALSync(events_log, wal)
    /\ synced' = hist
    /\ synced_regs' = Tables
    /\ pc' = "fs_page"
    /\ UNCHANGED <<pages_dat, pages_reg, sections_reg, indexes_reg, wal,
                   page_registry, section_registry, index_registry,
                   hist, lost, inserts, crashes>>
    /\ UNCHANGED <<failed, failures, bookVars, callVars>>

\* ... page_registry.save ...
FullSyncPage ==
    /\ pc \in {"opened", "fs_page"}
    /\ pages_reg' = PageSaveFile(pages_reg, page_registry.hot)
    /\ page_registry' = [page_registry EXCEPT !.hot = <<>>]
    /\ pc' = "fs_section"
    /\ lost' = <<>>
    /\ UNCHANGED <<pages_dat, sections_reg, indexes_reg, events_log, wal,
                   section_registry, index_registry,
                   hist, synced, synced_regs, inserts, syncs, crashes>>
    /\ UNCHANGED <<failed, failures, bookVars, callVars>>

\* ... section_registry.save ...
FullSyncSection ==
    /\ pc = "fs_section"
    /\ sections_reg' = SectionSaveFile(sections_reg, section_registry)
    /\ section_registry' = [section_registry EXCEPT !.hot = {}]
    /\ pc' = "fs_index"
    /\ UNCHANGED <<pages_dat, pages_reg, indexes_reg, events_log, wal,
                   page_registry, index_registry,
                   hist, synced, lost, synced_regs, inserts, syncs, crashes>>
    /\ UNCHANGED <<failed, failures, bookVars, callVars>>

\* ... index_registry.save ...
FullSyncIndex ==
    /\ pc = "fs_index"
    /\ indexes_reg' = IndexSaveFile(indexes_reg, index_registry)
    /\ index_registry' = [index_registry EXCEPT !.hot = {}]
    /\ pc' = "fs_clear"
    /\ UNCHANGED <<pages_dat, pages_reg, sections_reg, events_log, wal,
                   page_registry, section_registry,
                   hist, synced, lost, synced_regs, inserts, syncs, crashes>>
    /\ UNCHANGED <<failed, failures, bookVars, callVars>>

\* ... wal.clear
FullSyncClear ==
    /\ pc = "fs_clear"
    /\ events_log' = FileWALClear(events_log)
    /\ wal' = WalStart
    /\ pc' = "ready"
    /\ UNCHANGED <<pages_dat, pages_reg, sections_reg, indexes_reg,
                   page_registry, section_registry, index_registry,
                   hist, synced, lost, synced_regs, inserts, syncs, crashes>>
    /\ failed' = {}
    /\ UNCHANGED <<failures, bookVars, callVars>>

\* the process state is lost (kill, or drop after close); the files stay
Crash ==
    /\ Live
    /\ crashes < MaxCrashes
    /\ pc' = "crashed"
    /\ wal' = 0
    /\ page_registry' = NoPageRegistry
    /\ section_registry' = NoSectionRegistry
    /\ index_registry' = NoIndexRegistry
    /\ lost' = Drop(hist, Len(synced))
    /\ hist' = synced
    /\ crashes' = crashes + 1
    /\ UNCHANGED <<pages_dat, pages_reg, sections_reg, indexes_reg, events_log,
                   synced, synced_regs, inserts, syncs>>
    /\ UNCHANGED <<failed, failures, bookVars, callVars>>

\* ManagedHashTable::open on the directory, up to the quick_sync of the
\* full_sync it ends with: FileWAL::load, the three registry loads
Open ==
    /\ pc = "crashed"
    /\ \E replay \in {WalReplay(events_log)} :
       \E p \in {PageLoad(pages_reg, replay.events)} :
       \E s \in {SectionLoad(sections_reg, replay.events)} :
       \E i \in {IndexLoad(indexes_reg, replay.events)} :
       \E ok \in {~replay.err /\ ~p.err /\ ~s.err /\ ~i.err} :
           /\ pc' = IF ok THEN "opened" ELSE "open_failed"
           /\ wal' = IF ok THEN events_log.header ELSE 0
           /\ page_registry' = IF ok THEN p.reg ELSE NoPageRegistry
           /\ section_registry' = IF ok THEN s.reg ELSE NoSectionRegistry
           /\ index_registry' = IF ok THEN i.reg ELSE NoIndexRegistry
    /\ UNCHANGED <<pages_dat, pages_reg, sections_reg, indexes_reg, events_log,
                   hist, synced, lost, synced_regs, inserts, syncs, crashes>>
    /\ UNCHANGED <<failed, failures, bookVars, callVars>>

Next ==
    \/ \E key \in Keys, value \in Vals : Insert(key, value)
    \/ QuickSync
    \/ FullSyncBegin
    \/ FullSyncPage
    \/ FullSyncSection
    \/ FullSyncIndex
    \/ FullSyncClear
    \/ Crash
    \/ Open

Spec == Init /\ [][Next]_vars

\* the store with inserts that fail
NextFail ==
    \/ Next
    \/ \E key \in Keys, value \in Vals, fail_at \in 1..6 :
           InsertFail(key, value, fail_at)

SpecFail == Init /\ [][NextFail]_vars

\* ------------------------------------------------ PagerBookSection, threads
\* content after buf went to section_offset.. of a section
Wrote(c, section_index, section_offset, buf) ==
    [x \in DOMAIN c \cup {<<section_index, section_offset + i - 1>> : i \in 1..Len(buf)}
        |-> IF x[1] = section_index /\ x[2] >= section_offset
               /\ x[2] < section_offset + Len(buf)
            THEN buf[x[2] - section_offset + 1]
            ELSE c[x]]

PageKeyOf(sec) == <<sec.section_index, sec.section_offset \div PageSize>>

\* try_fetch_current_page, under the read lock of inner
TryFetchCurrentPage(sec) ==
    LET section_page_index == sec.section_offset \div PageSize
    IN  IF sec.current_page # NoPage /\ sec.current_page[2] = section_page_index
        THEN sec
        ELSE IF PageKeyOf(sec) \in DOMAIN pages
        THEN [sec EXCEPT !.current_page = <<pages[PageKeyOf(sec)], section_page_index>>]
        ELSE [sec EXCEPT !.current_page = NoPage]

\* Book::section: a thread that has not used its handle takes one of
\* another section
BookSection(t, section_index) ==
    /\ sections[t] = PagerBookSectionNew(0)
    /\ section_index # 0
    /\ sections' = [sections EXCEPT ![t] = PagerBookSectionNew(section_index)]
    /\ UNCHANGED <<pages, pager, assigned, content, sideVars, storeVars, callVars>>

\* Seek::seek(SeekFrom::Start(offset))
BookSeek(t, offset) ==
    /\ sections[t].step = "idle"
    /\ sections[t].section_offset # offset
    /\ sections' = [sections EXCEPT ![t].section_offset = offset]
    /\ UNCHANGED <<pages, pager, assigned, content, sideVars, storeVars, callVars>>

\* Write::write, get_or_assign_current_page: try_fetch_current_page, then
\* the page it found is returned, or the write lock is asked for
BookWriteFetch(t) ==
    /\ sections[t].step = "idle"
    /\ sections[t].section_offset < MaxBookPages * PageSize
    /\ \E sec \in {TryFetchCurrentPage(sections[t])} :
           sections' = [sections EXCEPT ![t] =
               [sec EXCEPT !.step = IF sec.current_page # NoPage
                                    THEN "page" ELSE "assign"]]
    /\ UNCHANGED <<pages, pager, assigned, content, sideVars, storeVars, callVars>>

\* get_or_assign_current_page under the write lock: pages.len() is the new
\* page's index and the key is inserted
BookWriteAssign(t) ==
    /\ sections[t].step = "assign"
    /\ \E pager_page_index \in {Cardinality(DOMAIN pages)} :
           /\ pages' = MapPut(pages, PageKeyOf(sections[t]), pager_page_index)
           /\ assigned' = assigned \cup {<<PageKeyOf(sections[t]), pager_page_index>>}
           /\ sections' = [sections EXCEPT
                  ![t].current_page = <<pager_page_index,
                                        sections[t].section_offset \div PageSize>>,
                  ![t].step = "page"]
    /\ UNCHANGED <<pager, content, sideVars, storeVars, callVars>>

\* Write::write, the rest: a buffer of one page of ones goes to
\* the page at page_offset, the handle moves on by what was written
BookWritePage(t) ==
    /\ sections[t].step = "page"
    /\ \E page_offset \in {sections[t].section_offset % PageSize} :
       \E buf \in {[i \in 1..PageSize |-> 1]} :
       \E max_write_size \in {Min(Len(buf), PageSize - page_offset)} :
           /\ pager' = FilePageWrite(pager, sections[t].current_page[1], page_offset,
                                     Take(buf, max_write_size))
           /\ content' = Wrote(content, sections[t].section_index,
                               sections[t].section_offset, Take(buf, max_write_size))
           /\ sections' = [sections EXCEPT
                  ![t].section_offset = @ + max_write_size,
                  ![t].step = "idle"]
    /\ UNCHANGED <<pages, assigned, sideVars, storeVars, callVars>>

NextBook ==
    \/ \E t \in Threads, section_index \in 0..(SectionCount - 1) :
           BookSection(t, section_index)
    \/ \E t \in Threads, page \in 0..(MaxBookPages - 1) : BookSeek(t, page * PageSize)
    \/ \E t \in Threads : BookWriteFetch(t)
    \/ \E t \in Threads : BookWriteAssign(t)
    \/ \E t \in Threads : BookWritePage(t)

SpecBook == Init /\ [][NextBook]_vars

\* ------------------------------------------ PagerBookSection, call by call
\* The handles of Threads used from one thread: every read, write and seek
\* runs to its end before the next call starts.  u64 and i64 are modelled
\* OffsetBits wide; read and write are called below MaxBookPages pages.
MaxHandleCalls == 4
OffsetBits == 5
U64_MAX == 2^OffsetBits - 1
I64_MIN == 0 - 2^(OffsetBits - 1)
I64_MAX == 2^(OffsetBits - 1) - 1

Builds == {"debug", "release"}

\* seek with the new offset stored before the range is looked at
SectionSeekStoresFirst(sec, whence, offset, build) ==
    LET failed_seek == [offset |-> IF whence = "end" THEN 0
                                   ELSE (sec.section_offset + offset) % (U64_MAX + 1),
                        result |-> "err"]
    IN  IF whence = "start" THEN [offset |-> offset, result |-> "ok"]
        ELSE IF whence = "end" THEN failed_seek
        ELSE IF offset >= 0
        THEN IF sec.section_offset + offset > U64_MAX THEN failed_seek
             ELSE [offset |-> sec.section_offset + offset, result |-> "ok"]
        ELSE IF offset = I64_MIN /\ build = "debug"
        THEN [offset |-> sec.section_offset, result |-> "panic"]
        ELSE IF sec.section_offset < -offset THEN failed_seek
             ELSE [offset |-> sec.section_offset - (-offset), result |-> "ok"]

\* Seek::seek and seek_relative: the new offset, or the error.  Negating
\* i64::MIN panics where overflow checks are on and wraps to itself, 2^63
\* as u64, where they are off.
SectionSeek(sec, whence, offset, build) ==
    LET failed_seek == [offset |-> sec.section_offset, result |-> "err"]
    IN  IF whence = "start" THEN [offset |-> offset, result |-> "ok"]
        ELSE IF whence = "end" THEN failed_seek
        ELSE IF offset >= 0
        THEN IF sec.section_offset + offset > U64_MAX THEN failed_seek
             ELSE [offset |-> sec.section_offset + offset, result |-> "ok"]
        ELSE IF offset = I64_MIN /\ build = "debug"
        THEN [offset |-> sec.section_offset, result |-> "panic"]
        ELSE IF sec.section_offset < -offset THEN failed_seek
             ELSE [offset |-> sec.section_offset - (-offset), result |-> "ok"]

HandleSeek(t, whence, offset, build) ==
    /\ sections[t].step = "idle"
    /\ calls < MaxHandleCalls
    /\ \E r \in {SectionSeek(sections[t], whence, offset, build)} :
           /\ sections' = [sections EXCEPT ![t].section_offset = r.offset]
           /\ outcome' = [op |-> "seek", handle |-> t, whence |-> whence,
                          offset |-> offset, bytes |-> <<>>, result |-> r.result]
    /\ calls' = calls + 1
    /\ UNCHANGED <<pages, pager, assigned, content, sideVars, storeVars>>

\* read that maps a page to a position that has none
HandleReadAssigns(p, sec, n) ==
    LET page_offset == sec.section_offset % PageSize
        max_read_size == Min(n, PageSize - page_offset)
        fetched == TryFetchCurrentPage(sec)
        pager_page_index == Cardinality(DOMAIN p)
    IN  IF fetched.current_page # NoPage
        THEN [pages |-> p, sec |-> fetched,
              bytes |-> FilePageRead(pager, fetched.current_page[1], page_offset,
                                     max_read_size)]
        ELSE [pages |-> MapPut(p, PageKeyOf(sec), pager_page_index),
              sec |-> [fetched EXCEPT !.current_page =
                          <<pager_page_index, sec.section_offset \div PageSize>>],
              bytes |-> Zeros(max_read_size)]

\* Read::read: try_fetch_current_page, then the page's bytes from
\* page_offset, or zeros when the position has no page
HandleReadPage(p, sec, n) ==
    LET page_offset == sec.section_offset % PageSize
        max_read_size == Min(n, PageSize - page_offset)
        fetched == TryFetchCurrentPage(sec)
    IN  [pages |-> p, sec |-> fetched,
         bytes |-> IF fetched.current_page # NoPage
                   THEN FilePageRead(pager, fetched.current_page[1], page_offset,
                                     max_read_size)
                   ELSE Zeros(max_read_size)]

\* read with one cursor for all the handles of a section
HandleReadSharedCursor(t, n) ==
    /\ sections[t].step = "idle"
    /\ calls < MaxHandleCalls
    /\ sections[t].section_offset < MaxBookPages * PageSize
    /\ \E r \in {HandleReadPage(pages, sections[t], n)} :
           /\ pages' = r.pages
           /\ sections' = [u \in Threads |->
                  IF u = t THEN [r.sec EXCEPT !.section_offset = @ + Len(r.bytes)]
                  ELSE IF sections[u].section_index = sections[t].section_index
                  THEN [sections[u] EXCEPT
                           !.section_offset = r.sec.section_offset + Len(r.bytes)]
                  ELSE sections[u]]
           /\ outcome' = [op |-> "read", handle |-> t, whence |-> "",
                          offset |-> n, bytes |-> r.bytes, result |-> "ok"]
    /\ calls' = calls + 1
    /\ UNCHANGED <<pager, assigned, content, sideVars, storeVars>>

HandleRead(t, n) ==
    /\ sections[t].step = "idle"
    /\ calls < MaxHandleCalls
    /\ sections[t].section_offset < MaxBookPages * PageSize
    /\ \E r \in {HandleReadPage(pages, sections[t], n)} :
           /\ pages' = r.pages
           /\ sections' = [sections EXCEPT ![t] =
                  [r.sec EXCEPT !.section_offset = @ + Len(r.bytes)]]
           /\ outcome' = [op |-> "read", handle |-> t, whence |-> "",
                          offset |-> n, bytes |-> r.bytes, result |-> "ok"]
    /\ calls' = calls + 1
    /\ UNCHANGED <<pager, assigned, content, sideVars, storeVars>>

\* write taking the page of the same position of section 0
HandleWritePageSection0(sec) ==
    LET fetched == TryFetchCurrentPage([sec EXCEPT !.section_index = 0])
        pager_page_index == Cardinality(DOMAIN pages)
    IN  IF fetched.current_page # NoPage
        THEN [pages |-> pages, sec |-> [fetched EXCEPT !.section_index = sec.section_index]]
        ELSE [pages |-> MapPut(pages, PageKeyOf(sec), pager_page_index),
              sec |-> [sec EXCEPT !.current_page =
                          <<pager_page_index, sec.section_offset \div PageSize>>]]

\* Write::write, get_or_assign_current_page run to its end: the page the
\* position has, or pages.len() assigned to it
HandleWritePage(sec) ==
    LET fetched == TryFetchCurrentPage(sec)
        pager_page_index == Cardinality(DOMAIN pages)
    IN  IF fetched.current_page # NoPage
        THEN [pages |-> pages, sec |-> fetched]
        ELSE [pages |-> MapPut(pages, PageKeyOf(sec), pager_page_index),
              sec |-> [fetched EXCEPT !.current_page =
                          <<pager_page_index, sec.section_offset \div PageSize>>]]

\* Write::write: seek the page to page_offset, write up to the page's end
HandleWrite(t, buf) ==
    /\ sections[t].step = "idle"
    /\ calls < MaxHandleCalls
    /\ sections[t].section_offset < MaxBookPages * PageSize
    /\ \E r \in {HandleWritePage(sections[t])} :
       \E page_offset \in {sections[t].section_offset % PageSize} :
       \E written \in {Take(buf, Min(Len(buf), PageSize - page_offset))} :
           /\ pages' = r.pages
           /\ assigned' = assigned \cup {<<k, r.pages[k]>> : k \in DOMAIN r.pages}
           /\ pager' = FilePageWrite(pager, r.sec.current_page[1], page_offset, written)
           /\ content' = Wrote(content, sections[t].section_index,
                               sections[t].section_offset, written)
           /\ sections' = [sections EXCEPT ![t] =
                  [r.sec EXCEPT !.section_offset = @ + Len(written)]]
           /\ outcome' = [op |-> "write", handle |-> t, whence |-> "",
                          offset |-> Len(buf), bytes |-> written, result |-> "ok"]
    /\ calls' = calls + 1
    /\ UNCHANGED <<sideVars, storeVars>>

WriteBufs == {<<1>>, <<2, 3>>, <<4, 5, 6, 7, 8>>}
ReadSizes == {1, 5}
SeekStarts == {0, 6, U64_MAX - 1}
SeekOffsets == {I64_MIN, -4, 2, I64_MAX}
SeekEnds == {-4, 0}

NextHandles ==
    \/ \E t \in Threads, section_index \in 0..(SectionCount - 1) :
           BookSection(t, section_index)
    \/ \E t \in Threads, n \in ReadSizes : HandleRead(t, n)
    \/ \E t \in Threads, buf \in WriteBufs : HandleWrite(t, buf)
    \/ \E t \in Threads, offset \in SeekStarts :
           HandleSeek(t, "start", offset, "release")
    \/ \E t \in Threads, offset \in SeekEnds :
           HandleSeek(t, "end", offset, "release")
    \/ \E t \in Threads, whence \in {"current", "relative"},
          offset \in SeekOffsets, build \in Builds :
           HandleSeek(t, whence, offset, build)

SpecHandles == Init /\ [][NextHandles]_vars

\* ------------------------------------------------- FilePage, call by call
\* One page handle of a FilePager on the file `pager`, with its cursor.
MaxPageCalls == 4
PageIndexes == {0, 1}

\* FilePager::page
FilePagerPage(index) ==
    [index |-> index, page_offset |-> 0, file_offset |-> index * PageSize]

\* page_size - page_offset in u64: with the cursor past the page the
\* subtraction panics where overflow checks are on and wraps to a number
\* above every buffer length where they are off
RoomInPage(pg, n, build) ==
    IF pg.page_offset <= PageSize THEN Min(PageSize - pg.page_offset, n)
    ELSE IF build = "debug" THEN -1 ELSE n

\* Read for FilePage: [page, bytes, result]
FilePageReadCall(pg, dat, n, build) ==
    LET max_read_size == RoomInPage(pg, n, build)
        zero_fill == pg.file_offset >= Len(dat)
        bytes == IF zero_fill THEN Zeros(max_read_size)
                 ELSE [i \in 1..Min(max_read_size, Len(dat) - pg.file_offset) |->
                          dat[pg.file_offset + i]]
        moved == IF zero_fill THEN max_read_size + Len(bytes) ELSE Len(bytes)
    IN  IF pg.page_offset = PageSize THEN [page |-> pg, bytes |-> <<>>, result |-> "ok"]
        ELSE IF max_read_size < 0 THEN [page |-> pg, bytes |-> <<>>, result |-> "panic"]
        ELSE IF max_read_size = 0 THEN [page |-> pg, bytes |-> <<>>, result |-> "ok"]
        ELSE [page |-> [pg EXCEPT !.page_offset = @ + moved, !.file_offset = @ + moved],
              bytes |-> bytes, result |-> "ok"]

\* Write for FilePage: [page, dat, bytes, result]
FilePageWriteCall(pg, dat, buf, build) ==
    LET max_write_size == RoomInPage(pg, Len(buf), build)
        written == Take(buf, max_write_size)
    IN  IF max_write_size < 0
        THEN [page |-> pg, dat |-> dat, bytes |-> <<>>, result |-> "panic"]
        ELSE IF max_write_size = 0
        THEN [page |-> pg, dat |-> dat, bytes |-> <<>>, result |-> "ok"]
        ELSE [page |-> [pg EXCEPT !.page_offset = @ + max_write_size,
                                  !.file_offset = @ + max_write_size],
              dat |-> [i \in 1..Max(Len(dat), pg.file_offset + max_write_size) |->
                          IF i > pg.file_offset /\ i <= pg.file_offset + max_write_size
                          THEN written[i - pg.file_offset]
                          ELSE IF i <= Len(dat) THEN dat[i] ELSE 0],
              bytes |-> written, result |-> "ok"]

\* Seek::seek for FilePage: [page, result]
FilePageSeek(pg, whence, offset) ==
    LET anchor == IF whence = "start" THEN 0
                  ELSE IF whence = "end" THEN PageSize ELSE pg.page_offset
        new_page_offset == anchor + offset
    IN  IF new_page_offset > U64_MAX \/ new_page_offset < 0
           \/ new_page_offset > PageSize
        THEN [page |-> pg, result |-> "invalid_input"]
        ELSE [page |-> [pg EXCEPT !.page_offset = new_page_offset,
                                  !.file_offset = pg.index * PageSize + new_page_offset],
              result |-> "ok"]

PageOpen(index) ==
    /\ file_page = NoPage
    /\ file_page' = FilePagerPage(index)
    /\ UNCHANGED <<pages, sections, pager, assigned, content, kv, locks, rwmap, claimers,
                   storeVars, callVars>>

PageRead(n, build) ==
    /\ file_page # NoPage
    /\ calls < MaxPageCalls
    /\ \E r \in {FilePageReadCall(file_page, pager, n, build)} :
           /\ file_page' = r.page
           /\ outcome' = [op |-> "read", whence |-> "", offset |-> n,
                          bytes |-> r.bytes, result |-> r.result]
    /\ calls' = calls + 1
    /\ UNCHANGED <<pages, sections, pager, assigned, content, kv, locks, rwmap, claimers,
                   storeVars>>

PageWrite(buf, build) ==
    /\ file_page # NoPage
    /\ calls < MaxPageCalls
    /\ \E r \in {FilePageWriteCall(file_page, pager, buf, build)} :
           /\ file_page' = r.page
           /\ pager' = r.dat
           /\ outcome' = [op |-> "write", whence |-> "", offset |-> Len(buf),
                          bytes |-> r.bytes, result |-> r.result]
    /\ calls' = calls + 1
    /\ UNCHANGED <<pages, sections, assigned, content, kv, locks, rwmap, claimers, storeVars>>

PageSeek(whence, offset) ==
    /\ file_page # NoPage
    /\ calls < MaxPageCalls
    /\ \E r \in {FilePageSeek(file_page, whence, offset)} :
           /\ file_page' = r.page
           /\ outcome' = [op |-> "seek", whence |-> whence, offset |-> offset,
                          bytes |-> <<>>, result |-> r.result]
    /\ calls' = calls + 1
    /\ UNCHANGED <<pages, sections, pager, assigned, content, kv, locks, rwmap, claimers,
                   storeVars>>

PageBufs == {<<1>>, <<2, 3, 4>>, <<5, 6, 7, 8, 9>>}
PageReadSizes == {1, 3, 5}
PageSeeks == {<<"start", 0>>, <<"start", 3>>, <<"start", 5>>,
              <<"end", 0>>, <<"end", -1>>, <<"end", 1>>,
              <<"current", 2>>, <<"current", -2>>}

NextPage ==
    \/ \E index \in PageIndexes : PageOpen(index)
    \/ \E n \in PageReadSizes, build \in Builds : PageRead(n, build)
    \/ \E buf \in PageBufs, build \in Builds : PageWrite(buf, build)
    \/ \E sk \in PageSeeks : PageSeek(sk[1], sk[2])

SpecPage == Init /\ [][NextPage]_vars

\* ------------------------------------------------------------ the locks
\* The calls of the store as the locks they take and give back, one step
\* per lock operation, run by LockThreads at once.  The three registries are
\* RwLocks, the write-ahead log and the pager's file are Mutexes.
RegistryLocks == <<"page", "section", "index">>
LockRank(lock) == CHOOSE i \in 1..Len(RegistryLocks) : RegistryLocks[i] = lock
IsRegistry(lock) == \E i \in 1..Len(RegistryLocks) : RegistryLocks[i] = lock

Acq(lock, mode) == [do |-> "acq", lock |-> lock, mode |-> mode]
Rel(lock, mode) == [do |-> "rel", lock |-> lock, mode |-> mode]
Alone(lock, mode) == <<Acq(lock, mode), Rel(lock, mode)>>
\* a registry's mutation: the write lock, wal.record under it, apply
Recorded(lock) ==
    <<Acq(lock, "w"), Acq("wal", "w"), Rel("wal", "w"), Rel(lock, "w")>>

\* the page registry behind the book: try_resolve_page under the read lock,
\* resolve_page under the write lock
PageLookupLocks == Alone("page", "r")
PageAssignLocks == Alone("page", "r") \o Recorded("page")

\* Write::write of a section at a mapped position, at a position without a
\* page; Read::read
SectionWriteLocks == PageLookupLocks \o Alone("pager", "w")
SectionWriteNewPageLocks == PageAssignLocks \o Alone("pager", "w")
SectionReadLocks == PageLookupLocks \o Alone("pager", "w")

\* insert that takes the index registry and, holding it, the section registry
InsertLocksIndexFirst ==
    Alone("section", "r") \o SectionWriteNewPageLocks \o SectionWriteLocks
        \o <<Acq("index", "w"), Acq("section", "w"), Acq("wal", "w"), Rel("wal", "w"),
             Rel("section", "w"), Acq("wal", "w"), Rel("wal", "w"), Rel("index", "w")>>

\* BookHashTable::insert: resolve_section, the writes of the entry,
\* update_section_end_offset, update_index_bloom_filter
InsertLocks ==
    Alone("section", "r") \o SectionWriteNewPageLocks \o SectionWriteLocks
        \o Recorded("section") \o Recorded("index")

\* scan and next: resolve_section, try_resolve_index, try_resolve_next_index,
\* the reads of the sizes and of the entry
ScanLocks ==
    Alone("section", "r") \o Alone("index", "r") \o Alone("index", "r")
        \o SectionReadLocks \o SectionReadLocks

\* ManagedHashTable::quick_sync: pager.sync, wal.sync
QuickSyncLocks == Alone("pager", "w") \o Alone("wal", "w")

\* ManagedHashTable::full_sync: quick_sync, the three write locks, the saves,
\* wal.clear, the guards dropped in the reverse of their declaration
FullSyncLocks ==
    QuickSyncLocks
        \o <<Acq("page", "w"), Acq("section", "w"), Acq("index", "w")>>
        \o Alone("wal", "w")
        \o <<Rel("index", "w"), Rel("section", "w"), Rel("page", "w")>>

LockCalls == {"insert", "scan", "quick_sync", "full_sync"}
LockSteps(op) ==
    IF op = "insert" THEN InsertLocks
    ELSE IF op = "scan" THEN ScanLocks
    ELSE IF op = "quick_sync" THEN QuickSyncLocks
    ELSE IF op = "full_sync" THEN FullSyncLocks
    ELSE <<>>

Busy(t) == locks[t].op # "idle"
NextLockStep(t) == LockSteps(locks[t].op)[locks[t].at]
Waits(t, lock, mode) ==
    /\ Busy(t)
    /\ NextLockStep(t) = Acq(lock, mode)
\* RwLock and Mutex: a writer needs the lock free, a reader needs it free
\* of writers
Free(t, lock, mode) ==
    \A u \in LockThreads \ {t} :
        \A h \in locks[u].held : h[1] = lock => (mode = "r" /\ h[2] = "r")
\* a reader may also be kept behind a writer that waits
FreeBehindWriters(t, lock, mode) ==
    /\ Free(t, lock, mode)
    /\ mode = "r" => \A u \in LockThreads \ {t} : ~Waits(u, lock, "w")

LockCall(t, op) ==
    /\ ~Busy(t)
    /\ locks' = [locks EXCEPT ![t] = [op |-> op, at |-> 1, held |-> {}]]
    /\ UNCHANGED <<pages, sections, pager, assigned, content, kv, file_page, rwmap, claimers,
                   storeVars, callVars>>

LockStep(t) ==
    /\ Busy(t)
    /\ \E step \in {NextLockStep(t)} :
       \E last \in {locks[t].at = Len(LockSteps(locks[t].op))} :
           /\ step.do = "acq" => Free(t, step.lock, step.mode)
           /\ locks' = [locks EXCEPT ![t] =
                  [op |-> IF last THEN "idle" ELSE @.op,
                   at |-> IF last THEN 0 ELSE @.at + 1,
                   held |-> IF step.do = "acq"
                            THEN @.held \cup {<<step.lock, step.mode>>}
                            ELSE @.held \ {<<step.lock, step.mode>>}]]
    /\ UNCHANGED <<pages, sections, pager, assigned, content, kv, file_page, rwmap, claimers,
                   storeVars, callVars>>

NextLocks ==
    \/ \E t \in LockThreads, op \in LockCalls : LockCall(t, op)
    \/ \E t \in LockThreads : LockStep(t)

SpecLocks == Init /\ [][NextLocks]_vars

\* ---------------------------------------------------------------- RwMap
\* One RwMap used by Claimers, each a caller of lock or try_lock and, with
\* the lock in hand, of release.  A step is one critical section of the
\* mutex around RwMapSyncInner.
MaxClaims == 3
ClaimRanges == {<<0, 2>>, <<1, 3>>, <<2, 4>>}

Claim(id, lo, hi, writer) == [id |-> id, lo |-> lo, hi |-> hi, writer |-> writer]

\* the closure with ranges that end at their upper bound included
ConflictClosedRanges(claim, held) ==
    IF claim.writer \/ held.writer
    THEN ~(claim.hi < held.lo \/ claim.lo > held.hi)
    ELSE FALSE

\* the closure of check_pending: a writer is involved and the ranges overlap
Conflict(claim, held) ==
    IF claim.writer \/ held.writer
    THEN ~(claim.hi <= held.lo \/ claim.lo >= held.hi)
    ELSE FALSE

\* check_pending where only two writers conflict
RwMapCheckPendingWritersOnly(sync) ==
    LET RECURSIVE Loop(_)
        Loop(sy) ==
            IF sy.pending_claims = {} THEN sy
            ELSE LET next_id == CHOOSE i \in {c.id : c \in sy.pending_claims} :
                                    \A c \in sy.pending_claims : i <= c.id
                     claim == CHOOSE c \in sy.pending_claims : c.id = next_id
                 IN  IF \E held \in sy.hold_claims :
                            claim.writer /\ held.writer /\ Conflict(claim, held)
                     THEN sy
                     ELSE Loop([sy EXCEPT !.pending_claims = @ \ {claim},
                                          !.hold_claims = @ \cup {claim}])
    IN  Loop(sync)

\* RwMap::check_pending: the pending claim of the smallest id is moved to
\* hold_claims, again and again, until that claim conflicts with a held one
RwMapCheckPending(sync) ==
    LET RECURSIVE Loop(_)
        Loop(sy) ==
            IF sy.pending_claims = {} THEN sy
            ELSE LET next_id == CHOOSE i \in {c.id : c \in sy.pending_claims} :
                                    \A c \in sy.pending_claims : i <= c.id
                     claim == CHOOSE c \in sy.pending_claims : c.id = next_id
                 IN  IF \E held \in sy.hold_claims : Conflict(claim, held)
                     THEN sy
                     ELSE Loop([sy EXCEPT !.pending_claims = @ \ {claim},
                                          !.hold_claims = @ \cup {claim}])
    IN  Loop(sync)

\* RwMap::try_lock run from claim to its return with no other call in
\* between: [sync, locked]
RwMapTryLock(sync, range, writer) ==
    LET claim_id == sync.next_claim_id
        claimed == [sync EXCEPT
                       !.next_claim_id = @ + 1,
                       !.pending_claims = @ \cup {Claim(claim_id, range[1], range[2],
                                                        writer)}]
        checked == RwMapCheckPending(claimed)
        locked == \E c \in checked.hold_claims : c.id = claim_id
    IN  IF locked THEN [sync |-> checked, locked |-> TRUE]
        ELSE [sync |-> [checked EXCEPT !.pending_claims = {c \in @ : c.id # claim_id}],
              locked |-> FALSE]

ClaimOf(c) == Claim(claimers[c].claim_id, claimers[c].lo, claimers[c].hi,
                    claimers[c].writer)
RwUnchanged ==
    UNCHANGED <<pages, sections, pager, assigned, content, kv, file_page, locks,
                storeVars, callVars>>

\* RwMap::claim, called by lock (try = FALSE) and try_lock (try = TRUE)
RwClaim(c, range, writer, try) ==
    /\ claimers[c].pc = "idle"
    /\ rwmap.next_claim_id < MaxClaims
    /\ range[1] < range[2]
    /\ rwmap' = [rwmap EXCEPT
           !.next_claim_id = @ + 1,
           !.pending_claims = @ \cup {Claim(rwmap.next_claim_id, range[1], range[2],
                                            writer)}]
    /\ claimers' = [claimers EXCEPT ![c] =
           [pc |-> "claimed", claim_id |-> rwmap.next_claim_id, lo |-> range[1],
            hi |-> range[2], writer |-> writer, try |-> try]]
    /\ RwUnchanged

\* check_pending at the start of wait_lock and check_lock, and at the end
\* of release_lock
RwCheckPending(c) ==
    /\ claimers[c].pc \in {"claimed", "released"}
    /\ rwmap' = RwMapCheckPending(rwmap)
    /\ claimers' = [claimers EXCEPT ![c] =
           IF @.pc = "released" THEN NoClaim ELSE [@ EXCEPT !.pc = "checked"]]
    /\ RwUnchanged

\* wait_lock: returns once the claim is in hold_claims
RwWaitLock(c) ==
    /\ claimers[c].pc = "checked"
    /\ ~claimers[c].try
    /\ \E held \in rwmap.hold_claims : held.id = claimers[c].claim_id
    /\ claimers' = [claimers EXCEPT ![c].pc = "locked"]
    /\ rwmap' = rwmap
    /\ RwUnchanged

\* try_lock after check_lock: Some(lock) when the claim is held, otherwise
\* the claim is taken out of pending_claims and None is returned
RwTryLock(c) ==
    /\ claimers[c].pc = "checked"
    /\ claimers[c].try
    /\ IF \E held \in rwmap.hold_claims : held.id = claimers[c].claim_id
       THEN /\ claimers' = [claimers EXCEPT ![c].pc = "locked"]
            /\ rwmap' = rwmap
       ELSE /\ claimers' = [claimers EXCEPT ![c] = NoClaim]
            /\ rwmap' = [rwmap EXCEPT !.pending_claims =
                             {p \in @ : p.id # claimers[c].claim_id}]
    /\ RwUnchanged

\* release_lock, its first critical section: the claim leaves hold_claims
RwRelease(c) ==
    /\ claimers[c].pc = "locked"
    /\ rwmap' = [rwmap EXCEPT !.hold_claims =
                     {h \in @ : h.id # claimers[c].claim_id}]
    /\ claimers' = [claimers EXCEPT ![c].pc = "released"]
    /\ RwUnchanged

NextRwMap ==
    \/ \E c \in Claimers, range \in ClaimRanges, writer \in BOOLEAN, try \in BOOLEAN :
           RwClaim(c, range, writer, try)
    \/ \E c \in Claimers : RwCheckPending(c)
    \/ \E c \in Claimers : RwWaitLock(c)
    \/ \E c \in Claimers : RwTryLock(c)
    \/ \E c \in Claimers : RwRelease(c)

SpecRwMap == Init /\ [][NextRwMap]_vars

\* ------------------------------------------------------- the entry sizes
\* key_size and value_size as insert stores them and as the section scanner
\* adds them, with u32 modelled SizeBits wide: one insert of a key and a
\* value of given lengths at an entry start, then the scanner's step there.
SizeBits == 3
U32_MAX == 2^SizeBits - 1
EntryStartsTried == {0, 5}

\* key.len() as u32
AsU32(n) == n % (U32_MAX + 1)

\* seek_relative((key_size + value_size) as i64): the sum is made in u32,
\* which panics where overflow checks are on and wraps where they are off
ScannerAdvance(key_size, value_size, build) ==
    IF key_size + value_size <= U32_MAX
    THEN [result |-> "ok", by |-> key_size + value_size]
    ELSE IF build = "debug" THEN [result |-> "panic", by |-> 0]
    ELSE [result |-> "ok", by |-> AsU32(key_size + value_size)]

SizesInsert(start, key_len, value_len) ==
    /\ outcome = NoCall
    /\ outcome' = [op |-> "insert", start |-> start, key_len |-> key_len,
                   value_len |-> value_len, key_size |-> AsU32(key_len),
                   value_size |-> AsU32(value_len), position |-> start,
                   result |-> "ok"]
    /\ calls' = calls + 1
    /\ UNCHANGED <<bookVars, storeVars>>

SizesNext(build) ==
    /\ outcome.op = "insert"
    /\ \E r \in {ScannerAdvance(outcome.key_size, outcome.value_size, build)} :
           outcome' = [outcome EXCEPT !.op = "next", !.result = r.result,
                                      !.position = outcome.start + 8 + r.by]
    /\ calls' = calls + 1
    /\ UNCHANGED <<bookVars, storeVars>>

NextSizes ==
    \/ \E start \in EntryStartsTried, key_len \in 0..U32_MAX, value_len \in 0..U32_MAX :
           SizesInsert(start, key_len, value_len)
    \/ \E build \in Builds : SizesNext(build)

SpecSizes == Init /\ [][NextSizes]_vars

\* ------------------------------------------------------ FastHeapStorage
\* The block size of the page file, and FastHeapEntryHeader::SIZE: flags,
\* next (page_index u32, entry_offset u16), payload_length u16.
BlockSize == 24
HEADER_SIZE == 9

\* u16::to_le_bytes / u16::from_le_bytes
U16ToLeBytes(n) == <<n % 256, (n \div 256) % 256>>
U16FromLeBytes(b) == b[1] + 256 * b[2]

NoNext == [some |-> FALSE, page_index |-> 0, entry_offset |-> 0]
SomeNext(page_index, entry_offset) ==
    [some |-> TRUE, page_index |-> page_index, entry_offset |-> entry_offset]

\* FastHeapEntryHeader::encode
HeaderEncode(h) ==
    <<(IF h.head THEN 1 ELSE 0) + (IF h.next.some THEN 2 ELSE 0)>>
    \o (IF h.next.some
        THEN ToLeBytes(h.next.page_index) \o U16ToLeBytes(h.next.entry_offset)
        ELSE Zeros(6))
    \o U16ToLeBytes(h.payload_length)

\* FastHeapEntryHeader::decode
HeaderDecode(buffer) ==
    [head |-> buffer[1] % 2 = 1,
     next |-> IF (buffer[1] \div 2) % 2 = 1
              THEN SomeNext(FromLeBytes(SubSeq(buffer, 2, 5)),
                            U16FromLeBytes(SubSeq(buffer, 6, 7)))
              ELSE NoNext,
     payload_length |-> U16FromLeBytes(SubSeq(buffer, 8, 9))]

\* FastPageStorage over page_count blocks whose occupied sizes are zero: a
\* page is the bytes below its occupied size
HeapNew(page_count) == [i \in 1..page_count |-> <<>>]

\* Page::free_size, Page::append
FreeSize(heap, page_index) == BlockSize - Len(heap[page_index + 1])
PageAppend(heap, page_index, buffer) ==
    [heap EXCEPT ![page_index + 1] = @ \o buffer]

\* PageIndexIterator: page_count indexes from start_index on, wrapping
PageIndexIterator(start_index, page_count) ==
    [i \in 1..page_count |-> (start_index + i - 1) % page_count]

\* the loop of insert_entry over the pages: the parts it collects, or full
RECURSIVE CollectParts(_, _, _, _)
CollectParts(heap, order, data, parts) ==
    IF order = <<>> THEN [full |-> TRUE, parts |-> parts]
    ELSE LET page_free == FreeSize(heap, order[1])
             data_free == Max(page_free - HEADER_SIZE, 0)
             part_payload_size == Min(Len(data), data_free)
             collected == Append(parts, [page |-> order[1],
                                         payload |-> Take(data, part_payload_size)])
         IN  IF data_free = 0
             THEN CollectParts(heap, Tail(order), data, parts)
             ELSE IF Drop(data, part_payload_size) # <<>>
             THEN CollectParts(heap, Tail(order),
                               Drop(data, part_payload_size), collected)
             ELSE [full |-> FALSE, parts |-> collected]

\* the inner loop of insert_entry: each part's header, naming the page and
\* the occupied size of the part after it, then its payload
RECURSIVE WriteParts(_, _, _)
WriteParts(heap, parts, index) ==
    IF index > Len(parts) THEN heap
    ELSE LET part == parts[index]
             next == IF index < Len(parts)
                     THEN SomeNext(parts[index + 1].page,
                                   Len(heap[parts[index + 1].page + 1]))
                     ELSE NoNext
             header == [head |-> index = 1, next |-> next,
                        payload_length |-> Len(part.payload)]
         IN  WriteParts(PageAppend(PageAppend(heap, part.page, HeaderEncode(header)),
                                   part.page, part.payload),
                        parts, index + 1)

\* insert_entry writing the parts it collected before it found the heap full
HeapInsertEntryWritesBeforeFull(heap, desired_page_index, data) ==
    LET c == CollectParts(heap, PageIndexIterator(desired_page_index, Len(heap)),
                          data, <<>>)
    IN  [result |-> IF c.full THEN "full" ELSE "ok",
         heap |-> WriteParts(heap, c.parts, 1)]

\* HeapStorage::insert_entry
HeapInsertEntry(heap, desired_page_index, data) ==
    LET c == CollectParts(heap, PageIndexIterator(desired_page_index, Len(heap)),
                          data, <<>>)
    IN  IF c.full THEN [result |-> "full", heap |-> heap]
        ELSE [result |-> "ok", heap |-> WriteParts(heap, c.parts, 1)]

\* next_head_entry_header until None with every part taken for an entry
RECURSIVE HeapIterateEveryPart(_, _, _, _)
HeapIterateEveryPart(heap, order, page, offset) ==
    IF offset >= Len(heap[page + 1])
    THEN IF order = <<>> THEN [entries |-> <<>>, err |-> FALSE]
         ELSE HeapIterateEveryPart(heap, Tail(order), order[1], 0)
    ELSE IF offset + HEADER_SIZE > Len(heap[page + 1])
    THEN [entries |-> <<>>, err |-> TRUE]
    ELSE LET header == HeaderDecode(SubSeq(heap[page + 1], offset + 1,
                                           offset + HEADER_SIZE))
             payload_offset == offset + HEADER_SIZE
             rest == HeapIterateEveryPart(heap, order, page,
                                          payload_offset + header.payload_length)
         IN  [entries |-> <<[page |-> page, entry_header |-> header,
                            payload_offset |-> payload_offset,
                            payload_remaining |-> header.payload_length]>>
                          \o rest.entries,
              err |-> rest.err]

\* FastHeapIterator::next_head_entry_header, called until None: the readers
\* HeapEntryIterator::next makes, in order; parts that are not heads are
\* stepped over
RECURSIVE HeapIterate(_, _, _, _)
HeapIterate(heap, order, page, offset) ==
    IF offset >= Len(heap[page + 1])
    THEN IF order = <<>> THEN [entries |-> <<>>, err |-> FALSE]
         ELSE HeapIterate(heap, Tail(order), order[1], 0)
    ELSE IF offset + HEADER_SIZE > Len(heap[page + 1])
    THEN [entries |-> <<>>, err |-> TRUE]
    ELSE LET header == HeaderDecode(SubSeq(heap[page + 1], offset + 1,
                                           offset + HEADER_SIZE))
             payload_offset == offset + HEADER_SIZE
             rest == HeapIterate(heap, order, page,
                                 payload_offset + header.payload_length)
         IN  IF ~header.head THEN rest
             ELSE [entries |-> <<[page |-> page, entry_header |-> header,
                                 payload_offset |-> payload_offset,
                                 payload_remaining |-> header.payload_length]>>
                               \o rest.entries,
                   err |-> rest.err]

\* HeapStorage::iter_entries and next() until None
HeapIterEntries(heap, start_page_index) ==
    LET order == PageIndexIterator(start_page_index, Len(heap))
    IN  IF order = <<>> THEN [entries |-> <<>>, err |-> TRUE]
        ELSE HeapIterate(heap, Tail(order), order[1], 0)

\* Read::read of FastHeapEntryReader with a buffer of n bytes
HeapRead(heap, reader, n) ==
    LET Here(r) ==
            LET to_read == Min(n, r.payload_remaining)
            IN  IF r.payload_offset + to_read > Len(heap[r.page + 1])
                THEN [reader |-> r, bytes |-> <<>>, err |-> TRUE]
                ELSE [reader |-> [r EXCEPT !.payload_offset = @ + to_read,
                                           !.payload_remaining = @ - to_read],
                      bytes |-> SubSeq(heap[r.page + 1], r.payload_offset + 1,
                                       r.payload_offset + to_read),
                      err |-> FALSE]
        next == reader.entry_header.next
    IN  IF n = 0 THEN [reader |-> reader, bytes |-> <<>>, err |-> FALSE]
        ELSE IF reader.payload_remaining > 0 THEN Here(reader)
        ELSE IF ~next.some THEN [reader |-> reader, bytes |-> <<>>, err |-> FALSE]
        ELSE IF \/ next.page_index >= Len(heap)
                \/ next.entry_offset + HEADER_SIZE > Len(heap[next.page_index + 1])
        THEN [reader |-> reader, bytes |-> <<>>, err |-> TRUE]
        ELSE Bind(HeaderDecode(SubSeq(heap[next.page_index + 1],
                                      next.entry_offset + 1,
                                      next.entry_offset + HEADER_SIZE)),
                  LAMBDA header :
                      Here([page |-> next.page_index, entry_header |-> header,
                            payload_offset |-> next.entry_offset + HEADER_SIZE,
                            payload_remaining |-> header.payload_length]))

\* read calls with a buffer of n bytes until one returns 0
RECURSIVE HeapReadToEnd(_, _, _)
HeapReadToEnd(heap, reader, n) ==
    Bind(HeapRead(heap, reader, n),
         LAMBDA got : IF got.err THEN [bytes |-> <<>>, err |-> TRUE]
                      ELSE IF got.bytes = <<>> THEN [bytes |-> <<>>, err |-> FALSE]
                      ELSE Bind(HeapReadToEnd(heap, got.reader, n),
                                LAMBDA rest : [bytes |-> got.bytes \o rest.bytes,
                                               err |-> rest.err]))

\* The heap on its own: heaps of one to three pages, payloads of no byte, of
\* one, of a few, of one more than an empty page takes and of one more than
\* two empty pages take; read buffers below, within and above a part.
MaxHeapInserts == 3
HeapPageCounts == {1, 2, 3}
HeapPayloads ==
    {<<>>, <<1>>, <<2, 3, 4>>,
     [i \in 1..(BlockSize - HEADER_SIZE + 1) |-> 10 + i],
     [i \in 1..(2 * (BlockSize - HEADER_SIZE) + 1) |-> 40 + i]}
ReadBufs == {2, 5, 64}

\* FastHeapStorage::new over a page storage of page_count empty pages
HeapOpen(page_count) ==
    /\ kv.open = "closed"
    /\ outcome = NoCall
    /\ kv' = [kv EXCEPT !.open = "heap", !.heap = HeapNew(page_count)]
    /\ UNCHANGED <<pages, sections, pager, assigned, content, file_page, locks,
                   rwmap, claimers, storeVars, callVars>>

\* one insert_entry call
HeapInsert(desired_page_index, data) ==
    /\ kv.open = "heap"
    /\ calls < MaxHeapInserts
    /\ desired_page_index < Len(kv.heap)
    /\ \E r \in {HeapInsertEntry(kv.heap, desired_page_index, data)} :
           /\ kv' = [kv EXCEPT !.heap = r.heap,
                               !.payloads = IF r.result = "ok"
                                            THEN Append(@, data) ELSE @]
           /\ outcome' = [op |-> "insert_entry", data |-> data,
                          desired_page_index |-> desired_page_index,
                          result |-> r.result]
    /\ calls' = calls + 1
    /\ UNCHANGED <<pages, sections, pager, assigned, content, file_page, locks,
                   rwmap, claimers, storeVars>>

NextHeap ==
    \/ \E page_count \in HeapPageCounts : HeapOpen(page_count)
    \/ \E desired_page_index \in 0..2, data \in HeapPayloads :
           HeapInsert(desired_page_index, data)

SpecHeap == Init /\ [][NextHeap]_vars

\* ------------------------------------------------------------ HeapKeyMap
\* the buffer HeapKeyMapIterator::next and value() read keys into
KeyMapBuffer == 1024

\* to_u64: the first eight bytes of the key, little-endian
RECURSIVE ToU64(_)
ToU64(bytes) ==
    IF bytes = <<>> THEN 0
    ELSE bytes[1] + 256 * ToU64(Drop(Take(bytes, Min(Len(bytes), 8)), 1))

\* Entry::encode
EntryEncode(key, value) == U16ToLeBytes(Len(key) % 65536) \o key \o value

\* KeyMap::insert
KeyMapInsert(heap, key, value) ==
    HeapInsertEntry(heap, ToU64(key) % Len(heap), EntryEncode(key, value))

\* Read::read_exact on a heap reader
RECURSIVE HeapReadExact(_, _, _)
HeapReadExact(heap, reader, n) ==
    IF n = 0 THEN [reader |-> reader, bytes |-> <<>>, err |-> FALSE]
    ELSE Bind(HeapRead(heap, reader, n),
              LAMBDA got :
                  IF got.err \/ got.bytes = <<>>
                  THEN [reader |-> got.reader, bytes |-> <<>>, err |-> TRUE]
                  ELSE Bind(HeapReadExact(heap, got.reader, n - Len(got.bytes)),
                            LAMBDA rest : [reader |-> rest.reader,
                                           bytes |-> got.bytes \o rest.bytes,
                                           err |-> rest.err]))

\* HeapKeyMapEntryReader in the state New
EntryReaderNew(heap_reader) ==
    [state |-> "New", remaining |-> 0, key |-> <<>>, heap_reader |-> heap_reader]

\* KeyMapEntryReader::key
EntryReaderKey(heap, er) ==
    IF er.state = "New"
    THEN Bind(HeapReadExact(heap, er.heap_reader, 2),
              LAMBDA got :
                  IF got.err THEN [er |-> er, err |-> TRUE]
                  ELSE [er |-> [er EXCEPT !.state = "ReadingKey",
                                          !.remaining = U16FromLeBytes(got.bytes),
                                          !.heap_reader = got.reader],
                        err |-> FALSE])
    ELSE [er |-> er, err |-> er.state = "ReadingValue"]

\* Read::read of HeapKeyMapEntryReader with a buffer of n bytes
EntryReaderRead(heap, er, n) ==
    IF er.state = "ReadingKey"
    THEN Bind(HeapRead(heap, er.heap_reader, Min(er.remaining, n)),
              LAMBDA got : [er |-> [er EXCEPT !.remaining = @ - Len(got.bytes),
                                              !.heap_reader = got.reader],
                            bytes |-> got.bytes, err |-> got.err])
    ELSE IF er.state = "ReadingFromKeyBuffer"
    THEN [er |-> [er EXCEPT !.key = Drop(@, Min(Len(er.key), n))],
          bytes |-> Take(er.key, Min(Len(er.key), n)), err |-> FALSE]
    ELSE IF er.state = "ReadingValue"
    THEN Bind(HeapRead(heap, er.heap_reader, n),
              LAMBDA got : [er |-> [er EXCEPT !.heap_reader = got.reader],
                            bytes |-> got.bytes, err |-> got.err])
    ELSE [er |-> er, bytes |-> <<>>, err |-> TRUE]

\* the loop of value() that reads past what is left of the key
RECURSIVE SkipKey(_, _)
SkipKey(heap, er) ==
    IF er.remaining = 0 THEN [er |-> er, err |-> FALSE]
    ELSE Bind(HeapRead(heap, er.heap_reader, Min(er.remaining, KeyMapBuffer)),
              LAMBDA got :
                  IF got.err \/ got.bytes = <<>> THEN [er |-> er, err |-> TRUE]
                  ELSE SkipKey(heap, [er EXCEPT !.remaining = @ - Len(got.bytes),
                                                !.heap_reader = got.reader]))

\* KeyMapEntryReader::value
EntryReaderValue(heap, er) ==
    LET Skipped(k) ==
            IF k.err THEN k
            ELSE IF k.er.state = "ReadingKey"
            THEN Bind(SkipKey(heap, k.er),
                      LAMBDA sk : [er |-> [sk.er EXCEPT !.state =
                                              IF sk.err THEN @ ELSE "ReadingValue"],
                                   err |-> sk.err])
            ELSE [er |-> [k.er EXCEPT !.state = "ReadingValue"], err |-> FALSE]
    IN  Bind(IF er.state = "New" THEN EntryReaderKey(heap, er)
             ELSE [er |-> er, err |-> FALSE],
             Skipped)

\* Read::read_to_end on an entry reader: read calls until one returns 0
RECURSIVE EntryReadToEnd(_, _)
EntryReadToEnd(heap, er) ==
    Bind(EntryReaderRead(heap, er, BlockSize),
         LAMBDA got :
             IF got.err THEN [er |-> got.er, bytes |-> <<>>, err |-> TRUE]
             ELSE IF got.bytes = <<>>
             THEN [er |-> got.er, bytes |-> <<>>, err |-> FALSE]
             ELSE Bind(EntryReadToEnd(heap, got.er),
                       LAMBDA rest : [er |-> rest.er,
                                      bytes |-> got.bytes \o rest.bytes,
                                      err |-> rest.err]))

\* the loop of HeapKeyMapIterator::next that compares the stored key with
\* the key asked for
RECURSIVE KeyMatches(_, _, _, _)
KeyMatches(heap, er, key, total_read) ==
    Bind(EntryReaderRead(heap, er, Min(Len(key) - total_read, KeyMapBuffer)),
         LAMBDA got :
             LET read == Len(got.bytes)
                 total == total_read + read
                 no == [matched |-> FALSE, er |-> got.er, err |-> got.err]
             IN  IF got.err \/ read = 0 \/ total > Len(key) THEN no
                 ELSE IF got.bytes # SubSeq(key, total - read + 1, total) THEN no
                 ELSE IF total = Len(key)
                 THEN [matched |-> TRUE, er |-> got.er, err |-> FALSE]
                 ELSE KeyMatches(heap, got.er, key, total))

NoKey == [some |-> FALSE, key |-> <<>>]
SomeKey(key) == [some |-> TRUE, key |-> key]

\* HeapKeyMapIterator::next over the heap readers left, until None
RECURSIVE KeyMapNext(_, _, _)
KeyMapNext(heap, readers, key) ==
    IF readers = <<>> THEN [entries |-> <<>>, err |-> FALSE]
    ELSE LET entry_reader == EntryReaderNew(readers[1])
             Rest(here) ==
                 Bind(KeyMapNext(heap, Tail(readers), key),
                      LAMBDA rest : [entries |-> here \o rest.entries,
                                     err |-> rest.err])
             Compared(k) ==
                 IF k.err THEN [entries |-> <<>>, err |-> TRUE]
                 ELSE Bind(KeyMatches(heap, k.er, key.key, 0),
                           LAMBDA m :
                               IF m.err THEN [entries |-> <<>>, err |-> TRUE]
                               ELSE IF m.matched
                               THEN Rest(<<[m.er EXCEPT
                                              !.state = "ReadingFromKeyBuffer",
                                              !.key = key.key]>>)
                               ELSE Rest(<<>>))
         IN  IF key.some THEN Bind(EntryReaderKey(heap, entry_reader), Compared)
             ELSE Rest(<<entry_reader>>)

\* KeyMap::iter and next() until None: the entry readers it yields
KeyMapIter(heap, key) ==
    LET start_page_index == IF key.some THEN ToU64(key.key) % Len(heap) ELSE 0
    IN  Bind(HeapIterEntries(heap, start_page_index),
             LAMBDA it : IF it.err THEN [entries |-> <<>>, err |-> TRUE]
                         ELSE KeyMapNext(heap, it.entries, key))

\* key() read to its end, then value() read to its end, on one entry
EntryPair(heap, er) ==
    LET Value(k) ==
            Bind(EntryReaderValue(heap, k.er),
                 LAMBDA v : IF v.err THEN [key |-> k.bytes, value |-> <<>>, err |-> TRUE]
                            ELSE Bind(EntryReadToEnd(heap, v.er),
                                      LAMBDA got : [key |-> k.bytes,
                                                    value |-> got.bytes,
                                                    err |-> got.err]))
        Key(k) ==
            IF k.err THEN [key |-> <<>>, value |-> <<>>, err |-> TRUE]
            ELSE Bind(EntryReadToEnd(heap, k.er),
                      LAMBDA got : IF got.err
                                   THEN [key |-> <<>>, value |-> <<>>, err |-> TRUE]
                                   ELSE Value(got))
    IN  Bind(EntryReaderKey(heap, er), Key)

\* the pairs iter(key) yields, each read with key() and value()
PairsOf(heap, key) ==
    Bind(KeyMapIter(heap, key),
         LAMBDA it : [pairs |-> [i \in 1..Len(it.entries) |->
                                    EntryPair(heap, it.entries[i])],
                      err |-> it.err])

\* --------------------------------------------------------------- KVStore
\* Stores opened with one or two pages; the empty key, a key, a key it is a
\* prefix of, and a key of another page.
MaxKVInserts == 4
KVPageCounts == {1, 2}
KVKeys == {<<>>, <<1>>, <<1, 2>>, <<2>>}
KVVals == {<<>>, <<7>>, <<8, 9>>}

\* the loop of KVStore::insert that inserts the pairs of the old key map
\* into the new one
RECURSIVE CopyPairs(_, _, _)
CopyPairs(heap, pairs, index) ==
    IF index > Len(pairs) THEN [result |-> "ok", heap |-> heap]
    ELSE IF pairs[index].err THEN [result |-> "err", heap |-> heap]
    ELSE Bind(KeyMapInsert(heap, pairs[index].key, pairs[index].value),
              LAMBDA r : IF r.result = "ok" THEN CopyPairs(r.heap, pairs, index + 1)
                         ELSE [result |-> "err", heap |-> r.heap])

\* KVStore::insert after the key map returned FullHeap: a key map of half as
\* many pages again in a file of the next revision, the old pairs copied,
\* the metadata rewritten, then the insert once more
KVStoreRebuild(store, key, value) ==
    LET page_count == store.metadata.page_count + store.metadata.page_count \div 2
        metadata == [revision |-> store.metadata.revision + 1,
                     page_count |-> page_count]
        Again(copied) ==
            IF copied.result # "ok"
            THEN [store |-> store, result |-> "err", rebuilt |-> FALSE]
            ELSE Bind(KeyMapInsert(copied.heap, key, value),
                      LAMBDA r : [store |-> [store EXCEPT !.metadata = metadata,
                                                          !.file = metadata,
                                                          !.heap = r.heap],
                                  result |-> IF r.result = "ok" THEN "ok" ELSE "err",
                                  rebuilt |-> TRUE])
        Copied(old) ==
            IF old.err THEN [store |-> store, result |-> "err", rebuilt |-> FALSE]
            ELSE Bind(CopyPairs(HeapNew(page_count), old.pairs, 1), Again)
    IN  Bind(PairsOf(store.heap, NoKey), Copied)

\* KVStore::insert
KVStoreInsert(store, key, value) ==
    Bind(KeyMapInsert(store.heap, key, value),
         LAMBDA r : IF r.result = "ok"
                    THEN [store |-> [store EXCEPT !.heap = r.heap],
                          result |-> "ok", full |-> FALSE, rebuilt |-> FALSE,
                          attempt |-> r.heap]
                    ELSE Bind(KVStoreRebuild([store EXCEPT !.heap = r.heap],
                                             key, value),
                              LAMBDA b : [store |-> b.store, result |-> b.result,
                                          full |-> TRUE, rebuilt |-> b.rebuilt,
                                          attempt |-> r.heap]))

\* KVStore::get: the value of the first entry iter(Some(key)) yields
KVStoreGet(heap, key) ==
    LET First(it) ==
            IF it.err THEN [result |-> "err", value |-> <<>>]
            ELSE IF it.entries = <<>> THEN [result |-> "KeyNotFound", value |-> <<>>]
            ELSE Bind(EntryReaderValue(heap, it.entries[1]),
                      LAMBDA v : IF v.err THEN [result |-> "err", value |-> <<>>]
                                 ELSE Bind(EntryReadToEnd(heap, v.er),
                                           LAMBDA got :
                                               [result |-> IF got.err THEN "err"
                                                           ELSE "ok",
                                                value |-> got.bytes]))
    IN  Bind(KeyMapIter(heap, SomeKey(key)), First)

\* KVStore::open on a new directory
KVOpen(page_count) ==
    /\ kv.open = "closed"
    /\ outcome = NoCall
    /\ kv' = [kv EXCEPT !.open = "store",
                        !.metadata = [revision |-> 0, page_count |-> page_count],
                        !.file = [revision |-> 0, page_count |-> page_count],
                        !.heap = HeapNew(page_count)]
    /\ UNCHANGED <<pages, sections, pager, assigned, content, file_page, locks,
                   rwmap, claimers, storeVars, callVars>>

\* one KVStore::insert call
KVInsert(key, value) ==
    /\ kv.open = "store"
    /\ calls < MaxKVInserts
    /\ \E r \in {KVStoreInsert(kv, key, value)} :
           /\ kv' = [r.store EXCEPT !.pairs = IF r.result = "ok"
                                              THEN Append(@, [key |-> key,
                                                              value |-> value])
                                              ELSE @]
           /\ outcome' = [op |-> "insert", key |-> key, value |-> value,
                          result |-> r.result, full |-> r.full,
                          rebuilt |-> r.rebuilt, attempt |-> r.attempt]
    /\ calls' = calls + 1
    /\ UNCHANGED <<pages, sections, pager, assigned, content, file_page, locks,
                   rwmap, claimers, storeVars>>

NextKV ==
    \/ \E page_count \in KVPageCounts : KVOpen(page_count)
    \/ \E key \in KVKeys, value \in KVVals : KVInsert(key, value)

SpecKV == Init /\ [][NextKV]_vars

\* ------------------------------------------- the registries on their own
\* Calls on the three registries of one table, outside insert, each with a
\* write-ahead log whose next record may fail.
MaxCalls == 3

RegPageKeys == {<<0, 0>>, <<0, 1>>, <<1, 0>>}
RegEndOffsets == {0, 5, 9}
RegIndexKeys == {<<0, 0>>, <<0, 2>>, <<1, 0>>, <<1, 3>>}
RegEntryOffsets == {3, 7}
RegBloomBits == {{0}, {1}}

MFailing(fail) == [M EXCEPT !.rec_fail = IF fail THEN 1 ELSE 0]

Called(op, key, arg, bit, fail, m) ==
    /\ page_registry' = m.pr
    /\ section_registry' = m.sr
    /\ index_registry' = m.ir
    /\ wal' = m.wh
    /\ events_log' = m.log
    /\ outcome' = [op |-> op, key |-> key, arg |-> arg, bit |-> bit,
                   fail |-> fail, err |-> m.err]
    /\ calls' = calls + 1
    /\ UNCHANGED <<pc, pages_dat, pages_reg, sections_reg, indexes_reg, hist,
                   synced, lost, synced_regs, inserts, syncs, crashes, failed,
                   failures, bookVars>>

\* PageRegistry::resolve_page
RegResolvePage(key, fail) ==
    /\ pc = "ready"
    /\ calls < MaxCalls
    /\ \E m \in {ResolvePage(MFailing(fail), key)} :
           Called("resolve_page", key, 0, {}, fail, m)

\* SectionRegistry::update_section_end_offset
RegUpdateEnd(section_index, end_offset, fail) ==
    /\ pc = "ready"
    /\ calls < MaxCalls
    /\ \E m \in {UpdateSectionEndOffset(MFailing(fail), section_index, end_offset)} :
           Called("update_section_end_offset", <<section_index>>, end_offset,
                  {}, fail, m)

\* IndexRegistry::update_index_bloom_filter
RegUpdateBloom(index_key, entry_offset, bloom_bit, fail) ==
    /\ pc = "ready"
    /\ calls < MaxCalls
    /\ \E m \in {UpdateIndexBloomFilter(MFailing(fail), index_key, entry_offset,
                                        bloom_bit)} :
           Called("update_index_bloom_filter", index_key, entry_offset,
                  bloom_bit, fail, m)

NextReg ==
    \/ \E key \in RegPageKeys, fail \in BOOLEAN : RegResolvePage(key, fail)
    \/ \E section_index \in 0..SectionCount, end_offset \in RegEndOffsets,
          fail \in BOOLEAN : RegUpdateEnd(section_index, end_offset, fail)
    \/ \E index_key \in RegIndexKeys, entry_offset \in RegEntryOffsets,
          bloom_bit \in RegBloomBits, fail \in BOOLEAN :
              RegUpdateBloom(index_key, entry_offset, bloom_bit, fail)

SpecReg == Init /\ [][NextReg]_vars

\* --------------------------------------------------- the log on its own
\* FileWAL::load and FileWALReader on the events.log files a directory may
\* hold: up to MaxFileEvents events, any of WalHeights in bytes 0..8, and
\* the empty file and a file cut inside its first 8 bytes.
MaxFileEvents == 2
FileEvents ==
    {PageEvent(<<0, 0>>, 0), PageEvent(<<0, 1>>, 2), SectionEvent(1, 9),
     IndexEvent(0, <<0, 0>>, {1}, 0), IndexEvent(2, <<0, 1>>, {0}, 10)}
FileEventSeqs ==
    UNION {[1..n -> FileEvents] : n \in 0..MaxFileEvents}
WalHeights == {0, 7, 8, 15, 22, 36, 38, 52, 68}
WalFiles ==
    {[header |-> h, events |-> es, len |-> Max(WalStart, LogEnd(es))] :
        h \in WalHeights, es \in FileEventSeqs}
    \cup {[header |-> 0, events |-> <<>>, len |-> n] : n \in {0, 4}}

InitWal ==
    /\ pc = "closed"
    /\ events_log \in WalFiles
    /\ pages_dat = <<>>
    /\ pages_reg = <<>>
    /\ sections_reg = [i \in 1..SectionCount |-> 0]
    /\ indexes_reg = <<>>
    /\ wal = 0
    /\ page_registry = NoPageRegistry
    /\ section_registry = [cache |-> [i \in 1..SectionCount |-> 0], hot |-> {}]
    /\ index_registry = NoIndexRegistry
    /\ hist = <<>>
    /\ synced = <<>>
    /\ synced_regs = Tables
    /\ lost = <<>>
    /\ inserts = 0
    /\ syncs = 0
    /\ crashes = 0
    /\ failed = {}
    /\ failures = 0
    /\ pages = EmptyMap
    /\ sections = [t \in Threads |-> PagerBookSectionNew(0)]
    /\ pager = <<>>
    /\ assigned = {}
    /\ content = EmptyMap
    /\ file_page = NoPage
    /\ locks = [t \in LockThreads |-> NoLocks]
    /\ rwmap = RwMapNew
    /\ claimers = [c \in Claimers |-> NoClaim]
    /\ kv = KVClosed
    /\ outcome = NoCall
    /\ calls = 0

\* FileWAL::load(file)
WalLoad ==
    /\ pc = "closed"
    /\ \E r \in {FileWALLoad(events_log)} :
           /\ events_log' = r.file
           /\ wal' = r.height
           /\ pc' = IF r.err THEN "load_failed" ELSE "loaded"
           /\ outcome' = [op |-> "load", file |-> events_log, err |-> r.err]
    /\ calls' = calls + 1
    /\ UNCHANGED <<pages_dat, pages_reg, sections_reg, indexes_reg,
                   page_registry, section_registry, index_registry, hist,
                   synced, lost, synced_regs, inserts, syncs, crashes, failed,
                   failures, bookVars>>

\* FileWALReader::new(file) and read_next until None or an error
WalRead ==
    /\ pc \in {"closed", "loaded"}
    /\ calls < MaxCalls
    /\ \E r \in {WalReplay(events_log)} :
           outcome' = [op |-> "read", file |-> events_log, events |-> r.events,
                       err |-> r.err]
    /\ calls' = calls + 1
    /\ UNCHANGED <<storeVars, bookVars>>

\* One turn of the loop of a registry's load, `while let Some(event) =
\* old_wal.read_next()? { registry.apply(event)?; }`, over the events read:
\* the page registry's events first, then the section registry's, then the
\* index registry's.  An error ends the open.
ReplayOrder(events) == OfTag(events, 1) \o OfTag(events, 2) \o OfTag(events, 3)

WalApply ==
    /\ pc = "loaded"
    /\ outcome.op \in {"read", "apply"}
    /\ ~outcome.err
    /\ \E todo \in {IF outcome.op = "read" THEN ReplayOrder(outcome.events)
                     ELSE outcome.todo} :
           /\ todo # <<>>
           /\ \E event \in {Head(todo)} :
              \E p \in {IF event.tag = 1 THEN PageApply(page_registry, event)
                        ELSE [reg |-> page_registry, err |-> FALSE]} :
              \E c \in {IF event.tag = 2 THEN SectionApply(section_registry, event)
                        ELSE [reg |-> section_registry, err |-> FALSE]} :
              \E i \in {IF event.tag = 3 THEN IndexApply(index_registry, event)
                        ELSE [reg |-> index_registry, err |-> FALSE]} :
                  /\ page_registry' = p.reg
                  /\ section_registry' = c.reg
                  /\ index_registry' = i.reg
                  /\ outcome' = [op |-> "apply", event |-> event,
                                 todo |-> Tail(todo),
                                 err |-> p.err \/ c.err \/ i.err]
                  /\ pc' = IF p.err \/ c.err \/ i.err THEN "load_failed"
                           ELSE "loaded"
    /\ UNCHANGED <<pages_dat, pages_reg, sections_reg, indexes_reg, events_log,
                   wal, hist, synced, lost, synced_regs, inserts, syncs, crashes,
                   failed, failures, calls, bookVars>>

NextWal == WalLoad \/ WalRead \/ WalApply

SpecWal == InitWal /\ [][NextWal]_vars

\* ------------------------------------------------------- the history
\* The entries of a history with key k, and those of section s, in order.
\* the bytes the first n events of a log take
RECURSIVE SizeOfEvents(_, _)
SizeOfEvents(events, n) ==
    IF n = 0 THEN 0 ELSE SizeOfEvents(events, n - 1) + EventSize(events[n])

HistOfKey(h, k) == SelectSeq(h, LAMBDA e : e.key = k)
HistOfSection(h, s) == SelectSeq(h, LAMBDA e : SectionOf(e.key) = s)

\* A history as scan(All) is to return it: section after section.
RECURSIVE HistBySection(_, _)
HistBySection(h, from) ==
    IF from >= SectionCount THEN <<>>
    ELSE HistOfSection(h, from) \o HistBySection(h, from + 1)

\* The bytes an entry takes in its section, and the offset the i-th entry of
\* a history starts at: the sizes of the earlier entries of its section.
EntrySize(e) == 8 + Len(e.key) + Len(e.value)

RECURSIVE SizeSum(_)
SizeSum(h) == IF h = <<>> THEN 0 ELSE EntrySize(Head(h)) + SizeSum(Tail(h))

EntryStart(h, i) == SizeSum(HistOfSection(Take(h, i - 1), SectionOf(h[i].key)))

\* Keys scans are asked for: the inserted ones and two that never are.
ProbeKeys == Keys \cup {<<2, 2>>, <<1, 2>>}

\* ------------------------------------------------------------- claims
\* C1: for every key k, the empty key and empty values included, scan(Key(k))
\* ends without error and the entries it yields with key k are all the
\* entries inserted with key k, in insertion order.
C1_ScanKeyYieldsInserted ==
    Live => \A k \in Keys :
                \E r \in {Scan(Env, FilterKey(k))} :
                    /\ ~r.err
                    /\ SelectSeq(r.entries, LAMBDA e : e.key = k) = HistOfKey(hist, k)

\* the empty key inserted twice, once with the empty value, behind a chunk
\* of the same section the scan for it skips or reads through
C1_Witness ==
    /\ pc = "ready"
    /\ Len(hist) = 3
    /\ hist[1].key # <<>> /\ SectionOf(hist[1].key) = 0
    /\ hist[2] = [key |-> <<>>, value |-> <<9>>]
    /\ hist[3] = [key |-> <<>>, value |-> <<>>]
    /\ Scan(Env, FilterKey(<<>>)).entries = <<hist[2], hist[3]>>

\* C2: scan(Key(k)) yields no entry whose stored key differs from k, a strict
\* prefix or extension of k included; a key never inserted yields nothing.
C2_ScanKeyYieldsOnlyKey ==
    Live => \A k \in ProbeKeys :
                \E r \in {Scan(Env, FilterKey(k))} :
                    /\ \A i \in 1..Len(r.entries) : r.entries[i].key = k
                    /\ HistOfKey(hist, k) = <<>> => r.entries = <<>>

\* <<2>> and its extension <<2, 1>> share a section and a bloom bit and are
\* both stored; each scan returns its own entry only
C2_Witness ==
    /\ Live
    /\ HistOfKey(hist, <<2>>) # <<>>
    /\ HistOfKey(hist, <<2, 1>>) # <<>>
    /\ Len(Scan(Env, FilterKey(<<2>>)).entries) = Len(HistOfKey(hist, <<2>>))
    /\ Len(Scan(Env, FilterKey(<<2, 1>>)).entries) = Len(HistOfKey(hist, <<2, 1>>))
    /\ Scan(Env, FilterKey(<<2, 2>>)).entries = <<>>

\* C3: scan(All) ends without error and yields each inserted entry exactly
\* once: section 0's entries in insertion order, then section 1's, and so on.
C3_ScanAllYieldsHistory ==
    Live => Scan(Env, FilterAll) = [entries |-> HistBySection(hist, 0), err |-> FALSE]

\* three entries inserted in an order that is not the section order, one of
\* them twice
C3_Witness ==
    /\ pc = "ready"
    /\ Len(hist) = 3
    /\ SectionOf(hist[1].key) = 1
    /\ SectionOf(hist[2].key) = 0
    /\ hist[3] = hist[1]
    /\ Scan(Env, FilterAll).entries = <<hist[2], hist[1], hist[3]>>


C6_WitnessAfterClear ==
    /\ pc = "opened"
    /\ lost # <<>>
    /\ events_log.header = WalStart
    /\ events_log.len > WalStart
    /\ pages_reg # <<>>

\* C9: the keys of the page registry map to distinct pager page indices, the
\* indices are exactly 0..n-1 with n the number of keys, and as long as the
\* registry lives a key keeps its index.
PageIndicesDense ==
    /\ DOMAIN page_registry.map = {page_registry.cache[i] :
                                      i \in 1..Len(page_registry.cache)}
    /\ \A k \in DOMAIN page_registry.map :
           /\ page_registry.map[k] \in 0..(Len(page_registry.cache) - 1)
           /\ page_registry.cache[page_registry.map[k] + 1] = k
    /\ \A i, j \in 1..Len(page_registry.cache) :
           page_registry.cache[i] = page_registry.cache[j] => i = j

PageIndicesKept ==
    pc' # "crashed" =>
        \A k \in DOMAIN page_registry.map :
            /\ k \in DOMAIN page_registry'.map
            /\ page_registry'.map[k] = page_registry.map[k]

C9_PageIndicesDenseAndKept == []PageIndicesDense /\ [][PageIndicesKept]_vars

\* a registry rebuilt from replayed Assigned events alone, of both sections
C9_Witness ==
    /\ pc = "opened"
    /\ pages_reg = <<>>
    /\ Len(page_registry.cache) >= 3
    /\ \E k1, k2 \in DOMAIN page_registry.map : k1[1] # k2[1]

\* C10: for every inserted entry, the index chunk its start offset lies in
\* exists and its bloom filter has the bit of the entry's key.
C10_BloomNoFalseNegatives ==
    Live => \A i \in 1..Len(hist) :
                \E h \in {TryResolveIndex(index_registry,
                               <<SectionOf(hist[i].key),
                                 EntryStart(hist, i) \div IndexChunkSize>>)} :
                    /\ h.some
                    /\ BloomBit(hist[i].key) \subseteq h.bloom_filter

\* two entries with different bits start in one chunk, a third in the next
C10_Witness ==
    /\ Live
    /\ Len(hist) = 3
    /\ \E h \in {TryResolveIndex(index_registry, <<0, 0>>)} :
           h.some /\ Cardinality(h.bloom_filter) = 2
    /\ TryResolveIndex(index_registry, <<0, 1>>).some


\* C7: the events an insert recorded before it returned an error are not
\* among the events the next open replays.
C7_FailedInsertNotReplayed ==
    pc = "opened" => failed \cap LogPositions(WalReplay(events_log).events) = {}

\* C8: under any interleaving of the threads' writes, a page key that was
\* given a pager page never gets another, and two page keys never hold the
\* same pager page.
C8_PageMappingPermanentAndExclusive ==
    /\ \A p, q \in assigned : p[1] = q[1] => p[2] = q[2]
    /\ \A k1, k2 \in DOMAIN pages : k1 # k2 => pages[k1] # pages[k2]


\* The offsets the entries of section s of a history start at, and the bytes
\* of an entry as insert lays them out.
EntryStarts(h, s) ==
    {EntryStart(h, i) : i \in {j \in 1..Len(h) : SectionOf(h[j].key) = s}}

EntryBytes(e) == ToLeBytes(Len(e.key)) \o ToLeBytes(Len(e.value)) \o e.key \o e.value

\* C11: for every chunk (s, c) of the index registry, first_entry_offset lies
\* in [c * index_chunk_size, (c + 1) * index_chunk_size) and is the smallest
\* start offset of an entry of section s that starts in that range.
C11_FirstEntryOffset ==
    Live => \A ik \in DOMAIN index_registry.map :
                \E f \in {index_registry.cache[index_registry.map[ik] + 1]
                               .first_entry_offset} :
                \E in_chunk \in {{o \in EntryStarts(hist, ik[1]) :
                                     o \div IndexChunkSize = ik[2]}} :
                    /\ ik[2] * IndexChunkSize <= f
                    /\ f < (ik[2] + 1) * IndexChunkSize
                    /\ f \in in_chunk
                    /\ \A o \in in_chunk : f <= o

\* chunk (0, 1) starts in its middle and a second entry with another bit
\* starts in it
C11_Witness ==
    /\ pc = "ready"
    /\ Len(hist) = 3
    /\ \E h \in {TryResolveIndex(index_registry, <<0, 1>>)} :
           /\ h.some
           /\ h.first_entry_offset > IndexChunkSize
           /\ Cardinality(h.bloom_filter) = 2
           /\ EntryStart(hist, 3) > h.first_entry_offset
           /\ EntryStart(hist, 3) < 2 * IndexChunkSize

\* C12: the end_offset of every section is the sum of 8 + key_size +
\* value_size over the entries inserted into it, and every entry's bytes lie
\* at the offset the entries before it in its section end at.
C12_SectionEndIsBytesAppended ==
    Live => /\ \A s \in 0..(SectionCount - 1) :
                   ResolveSection(section_registry, s) = SizeSum(HistOfSection(hist, s))
            /\ \A i \in 1..Len(hist) :
                   ReadExact(page_registry, pages_dat, SectionOf(hist[i].key),
                             EntryStart(hist, i), EntrySize(hist[i]))
                       = EntryBytes(hist[i])

\* both sections hold entries, section 0 two of them over more than one page
C12_Witness ==
    /\ pc = "ready"
    /\ Len(HistOfSection(hist, 0)) = 2
    /\ Len(HistOfSection(hist, 1)) = 1
    /\ ResolveSection(section_registry, 0) > 2 * PageSize
    /\ ResolveSection(section_registry, 1) > 0

\* C13: a registry call that changes a table records its event first: the
\* tables in memory are at every moment the dense files with the events
\* below the log's height applied in order, and a call whose record fails
\* returns the error with the three tables and the log's height as they were.
LoggedEvents == EventsBelow(events_log.events, wal)
RegistriesAreLogged ==
    /\ LET r == PageLoad(pages_reg, LoggedEvents)
       IN  /\ ~r.err
           /\ r.reg.cache = page_registry.cache
           /\ r.reg.map = page_registry.map
    /\ LET r == SectionLoad(sections_reg, LoggedEvents)
       IN  ~r.err /\ r.reg.cache = section_registry.cache
    /\ LET r == IndexLoad(indexes_reg, LoggedEvents)
       IN  /\ ~r.err
           /\ r.reg.cache = index_registry.cache
           /\ r.reg.map = index_registry.map
FailedRecordChangesNothing ==
    (calls' = calls + 1 /\ outcome'.err)
        => UNCHANGED <<page_registry, section_registry, index_registry, wal>>
C13_RecordBeforeMutate ==
    []RegistriesAreLogged /\ [][FailedRecordChangesNothing]_vars
C13_Witness ==
    /\ outcome.op = "resolve_page"
    /\ outcome.fail
    /\ outcome.err
    /\ page_registry.cache # <<>>
    /\ index_registry.cache # <<>>
    /\ outcome.key \notin DOMAIN page_registry.map

\* C14: record writes at the in-memory height and moves only that height:
\* a step that records leaves bytes 0..8 and the events below the old height
\* as they were, the events now end at the new height, and what a reader of
\* the file would replay is the same as before; bytes 0..8 change only in a
\* sync, to the in-memory height, or in a clear, to 8.
PersistedEvents(log) == EventsBelow(log.events, log.header)
RecordMovesOnlyHeight ==
    (pc = "ready" /\ wal' > wal)
        => /\ events_log'.header = events_log.header
           /\ EventsBelow(events_log'.events, wal) = EventsBelow(events_log.events, wal)
           /\ LogEnd(EventsBelow(events_log'.events, wal')) = wal'
           /\ Len(EventsBelow(events_log'.events, wal'))
                  > Len(EventsBelow(events_log.events, wal))
           /\ events_log'.len >= wal'
           /\ PersistedEvents(events_log') = PersistedEvents(events_log)
HeaderWrittenBySyncAndClear ==
    (events_log'.header # events_log.header)
        => \/ /\ pc = "ready"
              /\ pc' \in {"ready", "fs_page"}
              /\ syncs' = syncs + 1
              /\ wal' = wal
              /\ events_log'.header = wal
           \/ /\ pc = "fs_clear"
              /\ events_log'.header = WalStart
C14_RecordLeavesHeader ==
    [][RecordMovesOnlyHeight /\ HeaderWrittenBySyncAndClear]_vars
C14_Witness ==
    /\ pc = "ready"
    /\ events_log.header > WalStart
    /\ wal > events_log.header
    /\ Len(PersistedEvents(events_log)) < Len(LoggedEvents)

\* C15: the clear that ends a full_sync (the one open ends with included)
\* leaves the height at 8 in memory and in bytes 0..8, leaves the file as
\* long as it was, and leaves a file from which an open replays no event.
ClearResetsHeight ==
    (pc = "fs_clear" /\ pc' = "ready")
        => /\ wal' = WalStart
           /\ events_log'.header = WalStart
           /\ events_log'.len = events_log.len
           /\ WalReplay(events_log') = [events |-> <<>>, err |-> FALSE]
AfterFullSync ==
    (pc = "ready" /\ wal = WalStart)
        => /\ events_log.header = WalStart
           /\ WalReplay(events_log) = [events |-> <<>>, err |-> FALSE]
C15_FullSyncClearsLog == []AfterFullSync /\ [][ClearResetsHeight]_vars
C15_Witness ==
    /\ pc = "ready"
    /\ wal = WalStart
    /\ events_log.header = WalStart
    /\ events_log.len > WalStart
    /\ crashes > 0
    /\ hist # <<>>

\* C16: load gives an empty file the height 8 (and writes it), rejects a
\* file whose stored height is below 8 or above its length, and otherwise
\* adopts the stored height and leaves the file alone; the reader of a file
\* with a valid height that is the end of one of its events returns the
\* events from offset 8 that end at or below the height, in file order, and
\* then None, and the reader of an empty file returns no event.
HeightValid(file) ==
    file.len >= WalStart /\ file.header >= WalStart /\ file.header <= file.len
EventBoundaries(file) ==
    {n \in 0..Len(file.events) : WalStart + SizeOfEvents(file.events, n) = file.header}
LoadAsStated ==
    outcome.op = "load" =>
        LET file == outcome.file
        IN  /\ file.len = 0
                => /\ ~outcome.err
                   /\ wal = WalStart
                   /\ events_log = [file EXCEPT !.header = WalStart, !.len = WalStart]
            /\ (file.len > 0 /\ ~HeightValid(file))
                => outcome.err /\ events_log = file /\ pc = "load_failed"
            /\ HeightValid(file)
                => ~outcome.err /\ wal = file.header /\ events_log = file
ReadAsStated ==
    outcome.op = "read" =>
        LET file == outcome.file
        IN  /\ file.len = 0 => (~outcome.err /\ outcome.events = <<>>)
            /\ (file.len > 0 /\ ~HeightValid(file)) => outcome.err
            /\ (HeightValid(file) /\ EventBoundaries(file) # {})
                => /\ ~outcome.err
                   /\ \E n \in EventBoundaries(file) :
                          outcome.events = [i \in 1..n |-> file.events[i]]
            /\ (HeightValid(file) /\ EventBoundaries(file) = {}) => outcome.err
C16_LoadAndReplay == LoadAsStated /\ ReadAsStated
C16_Witness ==
    /\ outcome.op = "read"
    /\ pc = "loaded"
    /\ ~outcome.err
    /\ Len(outcome.events) = 1
    /\ Len(events_log.events) = 2
    /\ wal = events_log.header

\* C17: a section's end_offset never decreases.  update_section_end_offset
\* with a value not greater than the stored one changes nothing and records
\* nothing; with a greater one (and a log that takes the record) it stores
\* the value and records exactly one event, for that section with that
\* value; with an index at or beyond section_count it fails and changes
\* nothing.
UpdateEndAsStated ==
    (calls' = calls + 1 /\ outcome'.op = "update_section_end_offset")
        => LET section_index == outcome'.key[1]
               end_offset == outcome'.arg
               Same == UNCHANGED <<section_registry, wal, events_log>>
           IN  /\ section_index >= SectionCount => (outcome'.err /\ Same)
               /\ (/\ section_index < SectionCount
                   /\ end_offset <= ResolveSection(section_registry, section_index))
                      => (~outcome'.err /\ Same)
               /\ (/\ section_index < SectionCount
                   /\ end_offset > ResolveSection(section_registry, section_index)
                   /\ ~outcome'.fail)
                      => /\ ~outcome'.err
                         /\ section_registry'.cache =
                                [section_registry.cache EXCEPT ![section_index + 1] = end_offset]
                         /\ EventsBelow(events_log'.events, wal') =
                                Append(LoggedEvents,
                                       SectionEvent(section_index, end_offset))
EndOffsetsNeverDecrease ==
    \A i \in 1..SectionCount :
        (Len(section_registry.cache) = SectionCount
            /\ Len(section_registry'.cache) = SectionCount)
        => section_registry'.cache[i] >= section_registry.cache[i]
C17_EndOffsetMonotonic == [][UpdateEndAsStated /\ EndOffsetsNeverDecrease]_vars
C17_Witness ==
    /\ outcome.op = "update_section_end_offset"
    /\ outcome.key = <<0>>
    /\ outcome.arg = 5
    /\ ~outcome.err
    /\ ResolveSection(section_registry, 0) = 9
    /\ Len(OfTag(LoggedEvents, 2)) = 2

\* C18: update_index_bloom_filter (with a log that takes the record) on a
\* chunk that is absent appends (bloom_bit, entry_offset) under cache_idx =
\* the number of chunks so far and records one event; on a chunk whose
\* filter has the bit it changes and records nothing; on any other chunk
\* it ORs the bit into the filter, keeps first_entry_offset, and records one
\* event.  No step removes a chunk, moves it to another cache_idx, changes
\* its first_entry_offset or takes a bit out of its filter.
UpdateBloomAsStated ==
    (calls' = calls + 1 /\ outcome'.op = "update_index_bloom_filter"
        /\ ~outcome'.fail)
        => LET index_key == outcome'.key
               entry_offset == outcome'.arg
               bloom_bit == outcome'.bit
               reg == index_registry
               cache_idx == reg.map[index_key]
               old == reg.cache[cache_idx + 1]
               Logged(event) ==
                   EventsBelow(events_log'.events, wal') = Append(LoggedEvents, event)
           IN  /\ ~outcome'.err
               /\ index_key \notin DOMAIN reg.map
                   => /\ index_registry'.cache =
                             Append(reg.cache,
                                    IndexEntry(index_key, bloom_bit, entry_offset))
                      /\ DOMAIN index_registry'.map = DOMAIN reg.map \cup {index_key}
                      /\ index_registry'.map[index_key] = Len(reg.cache)
                      /\ Logged(IndexEvent(Len(reg.cache), index_key, bloom_bit,
                                           entry_offset))
               /\ (index_key \in DOMAIN reg.map /\ bloom_bit \subseteq old.bloom_filter)
                   => UNCHANGED <<index_registry, wal, events_log>>
               /\ (index_key \in DOMAIN reg.map
                       /\ ~(bloom_bit \subseteq old.bloom_filter))
                   => /\ index_registry'.cache =
                             [reg.cache EXCEPT ![cache_idx + 1] =
                                 IndexEntry(index_key,
                                            old.bloom_filter \cup bloom_bit,
                                            old.first_entry_offset)]
                      /\ index_registry'.map = reg.map
                      /\ Logged(IndexEvent(cache_idx, index_key,
                                           old.bloom_filter \cup bloom_bit,
                                           old.first_entry_offset))
ChunksOnlyGainBits ==
    \A index_key \in DOMAIN index_registry.map :
        LET cache_idx == index_registry.map[index_key]
            old == index_registry.cache[cache_idx + 1]
        IN  /\ index_key \in DOMAIN index_registry'.map
            /\ index_registry'.map[index_key] = cache_idx
            /\ index_registry'.cache[cache_idx + 1].key = index_key
            /\ index_registry'.cache[cache_idx + 1].first_entry_offset
                   = old.first_entry_offset
            /\ old.bloom_filter \subseteq index_registry'.cache[cache_idx + 1].bloom_filter
C18_UpdateBloom == [][UpdateBloomAsStated /\ ChunksOnlyGainBits]_vars
C18_Witness ==
    /\ outcome.op = "update_index_bloom_filter"
    /\ ~outcome.err
    /\ ~outcome.fail
    /\ Len(index_registry.cache) = 2
    /\ outcome.key \in DOMAIN index_registry.map
    /\ index_registry.map[outcome.key] = 0
    /\ index_registry.cache[1].bloom_filter = {0, 1}
    /\ index_registry.cache[1].first_entry_offset # outcome.arg

\* C19: for every index key ik, present or not, try_resolve_next_index(ik)
\* is the header of the chunk of ik's section with the smallest index_chunk
\* above ik's, whatever chunks lie between or in other sections, and None
\* when the section has no chunk above ik's.
MaxProbeChunk == 4
ProbeIndexKeys == (0..SectionCount) \X (0..MaxProbeChunk)
ChunksAbove(index_key) ==
    {k \in DOMAIN index_registry.map : k[1] = index_key[1] /\ k[2] > index_key[2]}
C19_NextIndexInSection ==
    \A index_key \in ProbeIndexKeys :
        LET next == TryResolveNextIndex(index_registry, index_key)
            above == ChunksAbove(index_key)
        IN  /\ above = {} => next = NoIndex
            /\ above # {}
                => /\ next.some
                   /\ next.key \in above
                   /\ \A k \in above : next.key[2] <= k[2]
                   /\ next = SomeIndex(index_registry.cache[
                                          index_registry.map[next.key] + 1])
C19_Witness ==
    /\ Len(index_registry.cache) = 3
    /\ index_registry.cache[1].key = <<1, 0>>
    /\ index_registry.cache[2].key = <<0, 2>>
    /\ index_registry.cache[3].key = <<0, 0>>
    /\ TryResolveNextIndex(index_registry, <<0, 0>>).key = <<0, 2>>
    /\ TryResolveNextIndex(index_registry, <<0, 1>>).key = <<0, 2>>
    /\ TryResolveNextIndex(index_registry, <<0, 2>>) = NoIndex

\* the section offsets of the entries SectionScanner::next reads (the two
\* sizes, and the reader it hands to the key filter) until None or an error
RECURSIVE ScannedOffsets(_, _)
ScannedOffsets(env, sc) ==
    Bind(SectionScannerNext(env, sc),
         LAMBDA n : IF n.result = "entry"
                    THEN {n.entry.reader - 8} \cup ScannedOffsets(env, n.sc)
                    ELSE {})

\* C20: during scan(Key(k)) every entry the section scanner reads starts in
\* an index chunk whose bloom filter has bloom_bit(k): a chunk without the
\* bit is skipped before any entry of it is read.
C20_ScanReadsOnlyMatchingChunks ==
    Live =>
        \A k \in ProbeKeys :
            LET section_index == SectionOf(k)
                end_offset == ResolveSection(section_registry, section_index)
            IN  end_offset > 0 =>
                    \A offset \in ScannedOffsets(Env,
                                     SectionScannerNew(section_index, end_offset,
                                                       SomeBloom(BloomBit(k)))) :
                        LET chunk == TryResolveIndex(index_registry,
                                        <<section_index, offset \div IndexChunkSize>>)
                        IN  chunk.some /\ BloomBit(k) \subseteq chunk.bloom_filter

\* what the calls of SectionScanner::next return, one after the other, until
\* None or an error
RECURSIVE ScannerSteps(_, _)
ScannerSteps(env, sc) ==
    Bind(SectionScannerNext(env, sc),
         LAMBDA n : IF n.result = "entry"
                    THEN {n} \cup ScannerSteps(env, n.sc)
                    ELSE {n})

BloomQueries == {NoBloom} \cup {SomeBloom(BloomBit(k)) : k \in ProbeKeys}

\* C21: in a store built by successful inserts, for every section and every
\* bloom query (none, as in scan(All), or a key's bit), no call of the
\* section scanner returns the corruption error or leaves the position
\* beyond section_end; an entry it reads, after a skip or not, starts where
\* an inserted entry starts and ends at or before section_end.
C21_ScanWithinSectionEnd ==
    Live =>
        \A section_index \in 0..(SectionCount - 1), bloom_query \in BloomQueries :
            \E section_end \in {ResolveSection(section_registry, section_index)} :
                \A n \in ScannerSteps(Env, SectionScannerNew(section_index,
                                            section_end, bloom_query)) :
                    /\ n.result # "err"
                    /\ n.sc.position <= section_end
                    /\ n.result = "entry"
                        => /\ (n.entry.reader - 8) \in EntryStarts(hist, section_index)
                           /\ n.sc.position =
                                  n.entry.reader + n.entry.key_size + n.entry.value_size
                    /\ n.result = "none"
                        => \/ n.sc.position = section_end
                           \/ /\ bloom_query.some
                              /\ ~TryResolveIndex(index_registry,
                                      <<section_index,
                                        n.sc.position \div IndexChunkSize>>).some
\* a key's scan skips chunk 0 of its section to the first entry of a later
\* chunk, and another key's scan skips a chunk to section_end
C21_Witness ==
    /\ pc = "ready"
    /\ \E k \in ProbeKeys :
       \E section_index \in {SectionOf(k)} :
       \E section_end \in {ResolveSection(section_registry, section_index)} :
       \E offsets \in {ScannedOffsets(Env, SectionScannerNew(section_index,
                                         section_end, SomeBloom(BloomBit(k))))} :
           /\ section_end > IndexChunkSize
           /\ offsets # {}
           /\ \A o \in offsets : o >= IndexChunkSize
    /\ \E k \in ProbeKeys :
       \E section_index \in {SectionOf(k)} :
       \E section_end \in {ResolveSection(section_registry, section_index)} :
       \E last \in {TryResolveIndex(index_registry,
                       <<section_index, (section_end - 1) \div IndexChunkSize>>)} :
           /\ section_end > 0
           /\ last.some
           /\ last.bloom_filter \cap BloomBit(k) = {}
           /\ \A o \in ScannedOffsets(Env, SectionScannerNew(section_index,
                                  section_end, SomeBloom(BloomBit(k)))) :
                  o < last.first_entry_offset

\* C22: applying a replayed PageEvent or IndexEvent whose index is greater
\* than the length of the registry's table returns the invalid-data error,
\* which ends the load, and leaves the table and the map as they were; an
\* index up to the length is applied without error.
ApplyOutOfOrderFails ==
    (outcome'.op = "apply" /\ outcome' # outcome)
        => \E event \in {outcome'.event} :
               /\ event.tag = 1 =>
                      IF event.idx > Len(page_registry.cache)
                      THEN /\ outcome'.err
                           /\ pc' = "load_failed"
                           /\ page_registry'.cache = page_registry.cache
                           /\ page_registry'.map = page_registry.map
                      ELSE /\ ~outcome'.err
                           /\ page_registry'.cache[event.idx + 1] = event.key
                           /\ page_registry'.map[event.key] = event.idx
               /\ event.tag = 3 =>
                      IF event.idx > Len(index_registry.cache)
                      THEN /\ outcome'.err
                           /\ pc' = "load_failed"
                           /\ index_registry'.cache = index_registry.cache
                           /\ index_registry'.map = index_registry.map
                      ELSE /\ ~outcome'.err
                           /\ index_registry'.cache[event.idx + 1] =
                                  IndexEntry(event.key, event.bloom, event.off)
                           /\ index_registry'.map[event.key] = event.idx
C22_OutOfOrderEventFails == [][ApplyOutOfOrderFails]_vars
C22_Witness ==
    /\ outcome.op = "apply"
    /\ outcome.err
    /\ outcome.event.tag = 3
    /\ outcome.event.idx = 2
    /\ Len(index_registry.cache) = 1
    /\ DOMAIN index_registry.map = {<<0, 0>>}

\* C23: a read through a section handle changes neither the page map nor
\* the pager's bytes, and at a position whose page is not mapped it returns
\* zeros, as many as were asked for up to the end of the page, without
\* failing.
ReadAllocatesNothing ==
    (calls' = calls + 1 /\ outcome'.op = "read")
        => \E sec \in {sections[outcome'.handle]} :
               /\ pages' = pages
               /\ pager' = pager
               /\ outcome'.result = "ok"
               /\ PageKeyOf(sec) \notin DOMAIN pages
                   => outcome'.bytes =
                          Zeros(Min(outcome'.offset,
                                    PageSize - (sec.section_offset % PageSize)))
C23_ReadOfUnmappedIsZeros == [][ReadAllocatesNothing]_vars
C23_Witness ==
    /\ outcome.op = "read"
    /\ Len(outcome.bytes) > 1
    /\ DOMAIN pages # {}
    /\ \E sec \in {sections[outcome.handle]} :
           /\ <<sec.section_index, (sec.section_offset - Len(outcome.bytes)) \div PageSize>>
                  \notin DOMAIN pages
           /\ \E k \in DOMAIN pages : k[1] = sec.section_index

\* C24: what repeated write calls put into a section is what repeated read
\* calls from the same offset return, through a new handle and through the
\* handles in use, across pages and with pages of other sections assigned
\* in between; a write call takes a non-empty prefix of its buffer and
\* moves the handle by it, and leaves every other section's bytes as they
\* were.  Calls run one at a time, at offsets below MaxBookPages pages.
ContentAt(section_index, section_offset) ==
    IF <<section_index, section_offset>> \in DOMAIN content
    THEN content[<<section_index, section_offset>>] ELSE 0
\* Read::read_exact on a handle: read calls until n bytes are there
RECURSIVE HandleReadExact(_, _, _, _)
HandleReadExact(p, dat, sec, n) ==
    IF n = 0 THEN <<>>
    ELSE LET page_offset == sec.section_offset % PageSize
             max_read_size == Min(n, PageSize - page_offset)
             got == IF PageKeyOf(sec) \in DOMAIN p
                    THEN FilePageRead(dat, p[PageKeyOf(sec)], page_offset, max_read_size)
                    ELSE Zeros(max_read_size)
         IN  got \o HandleReadExact(p, dat,
                        [sec EXCEPT !.section_offset = @ + Len(got)], n - Len(got))
SectionBytes(p, dat, section_index) ==
    HandleReadExact(p, dat, PagerBookSectionNew(section_index), MaxBookPages * PageSize)
ReadsBackWhatWasWritten ==
    /\ \A section_index \in 0..(SectionCount - 1) :
       \A section_offset \in 0..(MaxBookPages * PageSize - 1) :
       \E n \in {MaxBookPages * PageSize - section_offset} :
           HandleReadExact(pages, pager,
               [PagerBookSectionNew(section_index) EXCEPT !.section_offset = section_offset],
               n)
             = [i \in 1..n |-> ContentAt(section_index, section_offset + i - 1)]
    /\ \A t \in Threads :
           sections[t].section_offset < MaxBookPages * PageSize
               => \E r \in {HandleReadPage(pages, sections[t], MaxBookPages * PageSize)} :
                      /\ Len(r.bytes) >= 1
                      /\ r.bytes = [i \in 1..Len(r.bytes) |->
                             ContentAt(sections[t].section_index,
                                       sections[t].section_offset + i - 1)]
WriteTakesPrefix ==
    (calls' = calls + 1 /\ outcome'.op = "write")
        => \E t \in {outcome'.handle} :
           \E sec \in {sections[t]} :
           \E content_after \in {content'} :
               /\ Len(outcome'.bytes) >= 1
               /\ sections'[t].section_offset = sec.section_offset + Len(outcome'.bytes)
               /\ \A i \in 1..Len(outcome'.bytes) :
                      content_after[<<sec.section_index, sec.section_offset + i - 1>>]
                          = outcome'.bytes[i]
               /\ \A section_index \in 0..(SectionCount - 1) :
                      section_index # sec.section_index
                          => SectionBytes(pages', pager', section_index)
                                 = SectionBytes(pages, pager, section_index)
C24_WriteThenReadRoundTrip == []ReadsBackWhatWasWritten /\ [][WriteTakesPrefix]_vars
C24_Witness ==
    /\ outcome.op = "write"
    /\ \E section_index \in 0..(SectionCount - 1) :
       \E other \in 0..(SectionCount - 1) :
           /\ other # section_index
           /\ {<<section_index, 0>>, <<other, 0>>, <<section_index, 1>>} \subseteq DOMAIN pages
           /\ pages[<<section_index, 0>>] < pages[<<other, 0>>]
           /\ pages[<<other, 0>>] < pages[<<section_index, 1>>]
           /\ ContentAt(section_index, PageSize - 1) # 0
           /\ ContentAt(section_index, PageSize) # 0
           /\ ContentAt(other, 0) # 0
           /\ SectionBytes(pages, pager, section_index)
                  = [i \in 1..(MaxBookPages * PageSize) |-> ContentAt(section_index, i - 1)]

\* C25: the handles of one section read the same bytes and each has its
\* own cursor: a read through a handle returns what was last written at its
\* offset through any handle, and a read, write or seek through one handle,
\* or another handle being taken, leaves the offset of every other handle
\* as it was.
CursorsAreIndependent ==
    /\ calls' = calls + 1
           => \A t \in Threads :
                  t # outcome'.handle
                      => sections'[t].section_offset = sections[t].section_offset
    /\ (calls' = calls /\ sections' # sections)
           => \E t \in Threads :
                  /\ sections'[t].section_offset = 0
                  /\ \A u \in Threads : u # t => sections'[u] = sections[u]
    /\ (calls' = calls + 1 /\ outcome'.op = "read")
           => \E sec \in {sections[outcome'.handle]} :
                  /\ Len(outcome'.bytes) >= 1
                  /\ sections'[outcome'.handle].section_offset
                         = sec.section_offset + Len(outcome'.bytes)
                  /\ \A i \in 1..Len(outcome'.bytes) :
                         outcome'.bytes[i]
                             = ContentAt(sec.section_index, sec.section_offset + i - 1)
C25_HandlesShareBytesNotCursors == [][CursorsAreIndependent]_vars
C25_Witness ==
    /\ calls = 2
    /\ outcome.op = "read"
    /\ outcome.bytes = <<4, 5, 6, 7>>
    /\ \A t \in Threads :
           /\ sections[t].section_index = 0
           /\ sections[t].section_offset = PageSize

\* C26: on a section handle a seek from the end fails, a seek by a signed
\* offset whose target is above the largest offset or below 0 fails, and a
\* seek that fails (with an error, or with the panic of negating the
\* smallest signed offset where overflow checks are on) leaves the handle's
\* offset as it was; a seek that succeeds goes to its target.
SeekFailsInPlace ==
    (calls' = calls + 1 /\ outcome'.op = "seek")
        => \E t \in {outcome'.handle} :
           \E target \in {sections[t].section_offset + outcome'.offset} :
               /\ outcome'.whence = "end" => outcome'.result = "err"
               /\ (outcome'.whence \in {"current", "relative"}
                       /\ (target > U64_MAX \/ target < 0))
                      => outcome'.result # "ok"
               /\ outcome'.result # "ok" => sections'[t] = sections[t]
               /\ outcome'.result = "ok"
                      => sections'[t].section_offset =
                             IF outcome'.whence = "start" THEN outcome'.offset ELSE target
C26_FailedSeekKeepsOffset == [][SeekFailsInPlace]_vars
C26_Witness ==
    /\ outcome.op = "seek"
    /\ outcome.whence = "current"
    /\ outcome.result = "err"
    /\ outcome.offset > 0
    /\ sections[outcome.handle].section_offset = U64_MAX - 1

\* C27: the cursor of a page handle stays in 0..page_size: a read or write
\* that returns n bytes moves it by n, also when the bytes lie past the end
\* of the file and are zeros, and a seek from the start, the cursor or the
\* end (anchored at page_size) to a place outside the page fails with
\* invalid input and leaves the cursor where it was.
CursorInPage ==
    file_page # NoPage
        => /\ file_page.page_offset \in 0..PageSize
           /\ file_page.file_offset = file_page.index * PageSize + file_page.page_offset
CursorMovesByWhatWasDone ==
    calls' = calls + 1
        => /\ outcome'.op \in {"read", "write"}
               => /\ outcome'.result = "ok"
                  /\ file_page'.page_offset = file_page.page_offset + Len(outcome'.bytes)
           /\ outcome'.op = "seek"
               => \E target \in {(IF outcome'.whence = "start" THEN 0
                                  ELSE IF outcome'.whence = "end" THEN PageSize
                                  ELSE file_page.page_offset) + outcome'.offset} :
                      IF target \in 0..PageSize
                      THEN outcome'.result = "ok" /\ file_page'.page_offset = target
                      ELSE outcome'.result = "invalid_input" /\ file_page' = file_page
C27_PageCursorInRange == []CursorInPage /\ [][CursorMovesByWhatWasDone]_vars

\* C28: for every entry a section scanner returns, with or without a bloom
\* query, key() gives key_size bytes and value() value_size bytes, those of
\* the inserted entry that starts there, in whatever order the two are
\* called, when one is called alone or twice, and with the scanner already
\* at a later position.
ReaderOrders ==
    {<<"key">>, <<"value">>, <<"key", "value">>, <<"value", "key">>,
     <<"key", "key">>, <<"value", "value">>, <<"key", "value", "key">>}
RECURSIVE ReadersGive(_, _, _, _)
ReadersGive(env, e, order, inserted) ==
    IF order = <<>> THEN TRUE
    ELSE LET r == IF Head(order) = "key" THEN ScannerEntryKey(env, e)
                  ELSE ScannerEntryValue(env, e)
         IN  /\ r.bytes = IF Head(order) = "key" THEN inserted.key ELSE inserted.value
             /\ Len(r.bytes) = IF Head(order) = "key" THEN e.key_size ELSE e.value_size
             /\ ReadersGive(env, r.entry, Tail(order), inserted)
C28_EntryReadersIndependent ==
    Live =>
        \A section_index \in 0..(SectionCount - 1), bloom_query \in BloomQueries :
            \A n \in ScannerSteps(Env, SectionScannerNew(section_index,
                         ResolveSection(section_registry, section_index), bloom_query)) :
                n.result = "entry"
                    => \E i \in 1..Len(hist) :
                           /\ SectionOf(hist[i].key) = section_index
                           /\ EntryStart(hist, i) = n.entry.reader - 8
                           /\ \A order \in ReaderOrders :
                                  ReadersGive(Env, n.entry, order, hist[i])
C28_Witness ==
    /\ Live
    /\ \E section_index \in 0..(SectionCount - 1) :
       \E section_end \in {ResolveSection(section_registry, section_index)} :
       \E n \in ScannerSteps(Env, SectionScannerNew(section_index, section_end, NoBloom)) :
           /\ n.result = "entry"
           /\ n.entry.key_size > 0
           /\ n.entry.value_size > 0
           /\ n.sc.position < section_end
           /\ ScannerEntryValue(Env, ScannerEntryKey(Env, n.entry).entry).bytes = <<9>>

\* C29: the calls insert, scan, quick_sync and full_sync, run at once by
\* threads that share the registries, the log and the pager, never all
\* wait: a thread holds more than one registry lock only in full_sync, it
\* then took them in the order page, section, index, no thread waits for a
\* registry lock while it holds a later or the same one, or outside
\* full_sync any, and whenever a call is under way some thread can take its
\* next step, also with readers kept behind a waiting writer.
HeldRegistries(t) == {h[1] : h \in {x \in locks[t].held : IsRegistry(x[1])}}
LockOrder ==
    \A t \in LockThreads :
        /\ Cardinality(HeldRegistries(t)) > 1 => locks[t].op = "full_sync"
        /\ \A lock \in HeldRegistries(t) :
               Cardinality(HeldRegistries(t)) > 1
                   => \A i \in 1..(LockRank(lock) - 1) :
                          RegistryLocks[i] \in HeldRegistries(t)
        /\ (Busy(t) /\ NextLockStep(t).do = "acq" /\ IsRegistry(NextLockStep(t).lock)
                /\ HeldRegistries(t) # {})
               => /\ locks[t].op = "full_sync"
                  /\ \A lock \in HeldRegistries(t) :
                         LockRank(lock) < LockRank(NextLockStep(t).lock)
NoDeadlock ==
    (\E t \in LockThreads : Busy(t))
        => \E t \in LockThreads :
               /\ Busy(t)
               /\ NextLockStep(t).do = "acq"
                      => FreeBehindWriters(t, NextLockStep(t).lock, NextLockStep(t).mode)
C29_LockOrderNoDeadlock == LockOrder /\ NoDeadlock
C29_Witness ==
    \E t \in LockThreads, u \in LockThreads :
        /\ locks[t].op = "full_sync"
        /\ HeldRegistries(t) = {"page", "section"}
        /\ Waits(t, "index", "w")
        /\ locks[u].op = "insert"
        /\ <<"index", "w">> \in locks[u].held
        /\ Waits(u, "wal", "w")
        /\ \E v \in LockThreads : <<"wal", "w">> \in locks[v].held

\* C30: in every state of an RwMap used by several callers of lock,
\* try_lock and release, any two held claims whose ranges overlap are both
\* readers, and every caller that lock or try_lock gave a lock to has its
\* claim among the held ones.
Overlap(a, b) == ~(a.hi <= b.lo \/ a.lo >= b.hi)
HeldClaimsCompatible ==
    \A a \in rwmap.hold_claims, b \in rwmap.hold_claims :
        (a # b /\ Overlap(a, b)) => (~a.writer /\ ~b.writer)
LockedIsHeld ==
    \A c \in Claimers : claimers[c].pc = "locked" => ClaimOf(c) \in rwmap.hold_claims
C30_RwMapMutualExclusion == HeldClaimsCompatible /\ LockedIsHeld
C30_Witness ==
    /\ \E a \in rwmap.hold_claims, b \in rwmap.hold_claims :
           a # b /\ Overlap(a, b) /\ a.lo # b.lo
    /\ \E p \in rwmap.pending_claims :
           /\ p.writer
           /\ \E a \in rwmap.hold_claims : Overlap(p, a)
           /\ \E c \in Claimers : claimers[c].pc = "checked" /\ ClaimOf(c) = p
    /\ \A c \in Claimers : claimers[c].pc \in {"locked", "checked"}

\* C31: with no claim pending, try_lock(range, writer) gives a lock exactly
\* when no held claim both overlaps the half-open range and is a writer or
\* meets a writer; a lock given adds the claim to the held ones, and None
\* leaves the held and the pending claims as they were.
TryLockAsStated(sync, range, writer) ==
    \E r \in {RwMapTryLock(sync, range, writer)} :
    \E request \in {Claim(sync.next_claim_id, range[1], range[2], writer)} :
        /\ r.locked <=> ~\E held \in sync.hold_claims :
                             /\ Overlap(request, held)
                             /\ request.writer \/ held.writer
        /\ r.locked => /\ r.sync.hold_claims = sync.hold_claims \cup {request}
                       /\ r.sync.pending_claims = sync.pending_claims
        /\ ~r.locked => /\ r.sync.hold_claims = sync.hold_claims
                        /\ r.sync.pending_claims = sync.pending_claims
C31_TryLockGrantsIffNoConflict ==
    rwmap.pending_claims = {}
        => \A range \in ClaimRanges, writer \in BOOLEAN :
               TryLockAsStated(rwmap, range, writer)
C31_Witness ==
    /\ rwmap.pending_claims = {}
    /\ \E held \in rwmap.hold_claims : held.writer /\ held.lo = 0 /\ held.hi = 2
    /\ \E held \in rwmap.hold_claims : ~held.writer /\ held.lo = 2 /\ held.hi = 4
    /\ RwMapTryLock(rwmap, <<2, 4>>, FALSE).locked
    /\ ~RwMapTryLock(rwmap, <<1, 3>>, FALSE).locked
    /\ ~RwMapTryLock(rwmap, <<2, 4>>, TRUE).locked

\* C37: whenever every caller of the RwMap is outside its calls, holds a
\* lock, or waits in lock(), the pending claim of the smallest id conflicts
\* with a held claim: no caller waits for a lock that nothing keeps from it.
Quiescent ==
    \A c \in Claimers :
        \/ claimers[c].pc \in {"idle", "locked"}
        \/ claimers[c].pc = "checked" /\ ~claimers[c].try
C37_NoWaiterBlockedWithoutCause ==
    (Quiescent /\ rwmap.pending_claims # {})
        => \E oldest \in rwmap.pending_claims :
               /\ \A p \in rwmap.pending_claims : oldest.id <= p.id
               /\ \E held \in rwmap.hold_claims :
                      /\ Overlap(oldest, held)
                      /\ oldest.writer \/ held.writer

\* C34: insert stores the lengths of the key and the value as key_size and
\* value_size, and the scanner's step over an entry whose sizes are 32-bit
\* values ends at start + 8 + key_size + value_size, the sum neither
\* wrapped nor cut.
SizesStoredAndAdded ==
    /\ outcome.op \in {"insert", "next"}
           => /\ outcome.key_size = outcome.key_len
              /\ outcome.value_size = outcome.value_len
    /\ outcome.op = "next"
           => /\ outcome.result = "ok"
              /\ outcome.position
                     = outcome.start + 8 + outcome.key_len + outcome.value_len
C34_ScannerAdvanceExact == SizesStoredAndAdded

\* ---------------------------------------------------------------- C35
\* What ManagedHashTable::open would build from the files as they are
LoadedFromFiles ==
    LET replay == WalReplay(events_log)
    IN  [replay |-> replay,
         p |-> PageLoad(pages_reg, replay.events),
         s |-> SectionLoad(sections_reg, replay.events),
         i |-> IndexLoad(indexes_reg, replay.events)]

\* Replaying the log onto the dense files gives the tables of the dense
\* files: no error, the same pages, the same end offsets, the same indexes
ReplayGivesDense ==
    \E l \in {LoadedFromFiles} :
        /\ ~l.replay.err /\ ~l.p.err /\ ~l.s.err /\ ~l.i.err
        /\ l.p.reg.cache = pages_reg
        /\ l.s.reg.cache = [n \in 1..SectionCount |->
                              IF n <= Len(sections_reg) THEN sections_reg[n] ELSE 0]
        /\ l.i.reg.cache = indexes_reg

\* between index_registry.save and wal.clear the log replays onto the dense
\* tables without changing them ...
SavedFilesAbsorbReplay == pc = "fs_clear" => ReplayGivesDense

\* ... a kill there leaves those files as they are ...
CrashBeforeClearKeepsFiles ==
    (pc = "fs_clear" /\ pc' = "crashed") =>
        UNCHANGED <<pages_reg, sections_reg, indexes_reg, events_log>>

\* ... and the open that follows holds exactly the dense tables
OpenHoldsDense ==
    (pc = "crashed" /\ ReplayGivesDense /\ pc' # "crashed") =>
        /\ pc' = "opened"
        /\ page_registry'.cache = pages_reg
        /\ \A n \in 1..Len(sections_reg) : section_registry'.cache[n] = sections_reg[n]
        /\ index_registry'.cache = indexes_reg

\* C35: replay is idempotent: after a crash that follows the saves of the
\* three registries and precedes wal.clear, open replays the whole log onto
\* dense files that already hold its effect, and the registries it builds
\* equal the dense files: no page or index entry twice, no end offset changed.
C35_ReplayIdempotent ==
    /\ []SavedFilesAbsorbReplay
    /\ [][CrashBeforeClearKeepsFiles /\ OpenHoldsDense]_vars

\* an open that replayed a log of page, section and index events onto dense
\* files that already held them
C35_Witness ==
    /\ pc = "opened"
    /\ ReplayGivesDense
    /\ \A tag \in 1..3 : OfTag(WalReplay(events_log).events, tag) # <<>>
    /\ Len(pages_reg) > 0
    /\ page_registry.hot # <<>>

\* ---------------------------------------------------------------- C36
\* an insert that returned Err changed no scan's result
FailedInsertChangesNoScan ==
    failures' # failures =>
        \E before \in {Env} :
        \E after \in {[pr |-> page_registry', sr |-> section_registry',
                       ir |-> index_registry', dat |-> pages_dat']} :
            /\ Scan(after, FilterAll) = Scan(before, FilterAll)
            /\ \A k \in Keys : Scan(after, FilterKey(k)) = Scan(before, FilterKey(k))

\* every pair inserted with Ok is among the entries scan(Key) of its key gives
InsertedIsFoundByKey ==
    pc = "ready" =>
        \A n \in 1..Len(hist) :
            \E found \in {Scan(Env, FilterKey(hist[n].key))} :
                /\ ~found.err
                /\ \E j \in 1..Len(found.entries) : found.entries[j] = hist[n]

\* C36: an insert that returns an error, at whichever of its calls it fails,
\* leaves the running store observably unchanged: scan(All) and scan(Key(k))
\* give what they gave before it, and pairs inserted with Ok afterwards are
\* found by scan(Key).
C36_FailedInsertLeavesStoreUnchanged ==
    /\ [][FailedInsertChangesNoScan]_vars
    /\ []InsertedIsFoundByKey

\* ---------------------------------------------------------------- C38
\* the indexes the page registry's hot list names
HotPages == {page_registry.hot[n][2] : n \in 1..Len(page_registry.hot)}

\* an entry that is not hot stands in the dense file as it stands in memory
ColdEntriesAreOnFile ==
    /\ \A i \in 1..Len(page_registry.cache) :
           (i - 1) \notin HotPages =>
               i <= Len(pages_reg) /\ pages_reg[i] = page_registry.cache[i]
    /\ \A i \in 1..Len(section_registry.cache) :
           (i - 1) \notin section_registry.hot =>
               i <= Len(sections_reg) /\ sections_reg[i] = section_registry.cache[i]
    /\ \A i \in 1..Len(index_registry.cache) :
           (i - 1) \notin index_registry.hot =>
               i <= Len(indexes_reg) /\ indexes_reg[i] = index_registry.cache[i]

\* each save of full_sync leaves its file equal to its table, nothing hot
SaveWritesWholeTable ==
    /\ (pc # pc' /\ pc' = "fs_section") =>
           pages_reg' = page_registry'.cache /\ page_registry'.hot = <<>>
    /\ (pc # pc' /\ pc' = "fs_index") =>
           sections_reg' = section_registry'.cache /\ section_registry'.hot = {}
    /\ (pc # pc' /\ pc' = "fs_clear") =>
           indexes_reg' = index_registry'.cache /\ index_registry'.hot = {}

\* C38: in every reachable state each in-memory entry of the page, section
\* and index registry whose index is not in the hot set is stored identically
\* in the dense file, so that after save() the dense file equals the whole
\* in-memory table and the hot set is empty.
C38_ColdEntriesMatchDenseFile ==
    /\ []ColdEntriesAreOnFile
    /\ [][SaveWritesWholeTable]_vars

\* after an open that replayed events, some entries of each table are hot
\* and others, loaded from the dense files, are not
C38_Witness ==
    /\ pc = "opened"
    /\ HotPages # {} /\ \E i \in 1..Len(page_registry.cache) : (i - 1) \notin HotPages
    /\ section_registry.hot # {}
    /\ \E i \in 1..SectionCount :
           (i - 1) \notin section_registry.hot /\ section_registry.cache[i] > 0
    /\ index_registry.hot # {}

\* ---------------------------------------------------------------- C39
\* the calls of SectionScanner::next from sc on: each one that returns an
\* entry leaves the position higher than it found it and not beyond
\* section_end, and the one that returns None leaves it at section_end
RECURSIVE EveryStepAdvances(_, _)
EveryStepAdvances(env, sc) ==
    Bind(SectionScannerNext(env, sc),
         LAMBDA n : IF n.result = "entry"
                    THEN /\ n.sc.position > sc.position
                         /\ n.sc.position <= sc.section_end
                         /\ EveryStepAdvances(env, n.sc)
                    ELSE n.result = "none" /\ n.sc.position = sc.section_end)

\* the scanners scan(All) and scan(Key(k)) make, one per section and query
SectionScanners ==
    {SectionScannerNew(section_index,
                       ResolveSection(section_registry, section_index), query) :
         section_index \in 0..(SectionCount - 1), query \in BloomQueries}

\* a section scanner is done after at most one call per 8 bytes of the
\* section and one more; a scan yields no more entries than were inserted
ScansEndInBoundedSteps ==
    /\ \A sc \in SectionScanners :
           Cardinality(ScannerSteps(Env, sc)) <= sc.section_end \div 8 + 1
    /\ \A filter \in {FilterAll} \cup {FilterKey(k) : k \in ProbeKeys} :
           \E scan \in {Scan(Env, filter)} :
               ~scan.err /\ Len(scan.entries) <= Len(hist)

\* C39: every scan terminates: for the All and the Key filter next() returns
\* None after finitely many calls, because every call of a section scanner
\* that returns an entry, a bloom skip included, leaves its position strictly
\* higher, until the position equals section_end.
C39_ScanTerminates ==
    Live => (\A sc \in SectionScanners : EveryStepAdvances(Env, sc))
            /\ ScansEndInBoundedSteps

\* a section of three entries in two chunks, the first chunk without the
\* queried bit: the scanner skips, reads and ends
C39_Witness ==
    /\ Live
    /\ \E sc \in SectionScanners :
           /\ sc.bloom_query.some
           /\ sc.section_end >= 24
           /\ \E first \in {SectionScannerNext(Env, sc)} :
                  /\ first.result = "entry"
                  /\ first.entry.reader - 8 >= IndexChunkSize
                  /\ SectionScannerNext(Env, first.sc).result = "none"

\* ---------------------------------------------------------------- C32
\* how often each element stands in a sequence
SeqBag(seq) ==
    [x \in {seq[i] : i \in 1..Len(seq)} |->
        Cardinality({i \in 1..Len(seq) : seq[i] = x})]

\* what the readers of iter_entries(start_page_index) return, each read to
\* its end with a buffer of n bytes
PayloadsRead(heap, start_page_index, n) ==
    \E it \in {HeapIterEntries(heap, start_page_index)} :
        /\ ~it.err
        /\ \A i \in 1..Len(it.entries) : ~HeapReadToEnd(heap, it.entries[i], n).err
        /\ SeqBag([i \in 1..Len(it.entries) |->
                      HeapReadToEnd(heap, it.entries[i], n).bytes])
               = SeqBag(kv.payloads)

\* the payload bytes the pages of the heap can still take
RECURSIVE HeapRoom(_, _)
HeapRoom(heap, page_index) ==
    IF page_index >= Len(heap) THEN 0
    ELSE Max(FreeSize(heap, page_index) - HEADER_SIZE, 0)
         + HeapRoom(heap, page_index + 1)

\* from whichever page the iterator starts and whatever the buffer, the
\* entries read are the payloads inserted, each once
EntriesAreThePayloads ==
    kv.open = "heap" =>
        \A start_page_index \in 0..(Len(kv.heap) - 1), n \in ReadBufs :
            PayloadsRead(kv.heap, start_page_index, n)

\* insert_entry returns Ok when the payload fits and FullHeap otherwise,
\* and then leaves every page as it was
InsertOkWhenItFits ==
    (kv.open = "heap" /\ calls' # calls) =>
        \E room \in {HeapRoom(kv.heap, 0)} :
            /\ outcome'.result = "ok"
                   <=> (room > 0 /\ Len(outcome'.data) <= room)
            /\ outcome'.result = "full" => kv'.heap = kv.heap

\* C32: heap round trip: a payload that fits in the heap's free space is
\* inserted, and iter_entries then yields one entry per inserted payload
\* whose reader returns exactly the inserted bytes, also when the payload is
\* chained over several pages and the read buffer is smaller than a part;
\* the parts that continue an entry are not yielded as entries.
C32_HeapRoundTrip ==
    /\ []EntriesAreThePayloads
    /\ [][InsertOkWhenItFits]_vars

\* two payloads inserted, one of them chained over three pages
C32_Witness ==
    /\ kv.open = "heap"
    /\ Len(kv.payloads) >= 2
    /\ \E i \in 1..Len(kv.payloads) : Len(kv.payloads[i]) > 2 * (BlockSize - HEADER_SIZE)
    /\ \E e \in {HeapIterEntries(kv.heap, 0)} :
           \E i \in 1..Len(e.entries) :
               /\ e.entries[i].entry_header.next.some
               /\ e.entries[i].payload_remaining > 5

\* ---------------------------------------------------------------- C33
\* the pairs of a sequence whose key is k, in order
RECURSIVE PairsWithKey(_, _)
PairsWithKey(pairs, k) ==
    IF pairs = <<>> THEN <<>>
    ELSE (IF pairs[1].key = k THEN <<pairs[1]>> ELSE <<>>)
         \o PairsWithKey(Tail(pairs), k)

\* iter(Some(k)) yields the pairs inserted with the key k, each once, with
\* the key and the value they were inserted with
IterYieldsTheKey(k) ==
    \E got \in {PairsOf(kv.heap, SomeKey(k))} :
        /\ ~got.err
        /\ \A i \in 1..Len(got.pairs) : ~got.pairs[i].err
        /\ SeqBag([i \in 1..Len(got.pairs) |->
                      [key |-> got.pairs[i].key, value |-> got.pairs[i].value]])
               = SeqBag(PairsWithKey(kv.pairs, k))

\* get returns the value of a pair inserted with the key, the one iter
\* yields first, or KeyNotFound when there is none
GetFindsTheKey(k) ==
    \E got \in {KVStoreGet(kv.heap, k)} :
        IF PairsWithKey(kv.pairs, k) = <<>> THEN got.result = "KeyNotFound"
        ELSE /\ got.result = "ok"
             /\ \E i \in 1..Len(kv.pairs) :
                    kv.pairs[i] = [key |-> k, value |-> got.value]
             /\ got.value = PairsOf(kv.heap, SomeKey(k)).pairs[1].value

\* C33: iter(Some(k)) yields exactly the entries whose stored key equals k,
\* in length and in bytes, for every k, the empty key and keys that are
\* prefixes of stored keys included, and the value reader of each returns the
\* value inserted with the key; get returns the value of the first such
\* entry, or KeyNotFound.
C33_LookupYieldsExactlyTheKey ==
    kv.open = "store" =>
        \A k \in KVKeys : IterYieldsTheKey(k) /\ GetFindsTheKey(k)

\* ---------------------------------------------------------------- C40
\* an insert that met a full heap left the old heap as it was and made the
\* store anew: the next revision, half as many pages again, the metadata and
\* the file of the key map in step
FullHeapRebuilds ==
    (kv.open = "store" /\ calls' # calls /\ outcome'.full) =>
        /\ outcome'.attempt = kv.heap
        /\ outcome'.rebuilt
        /\ kv'.metadata.revision = kv.metadata.revision + 1
        /\ kv'.metadata.page_count
               = kv.metadata.page_count + kv.metadata.page_count \div 2
        /\ outcome'.result = "ok" =>
               kv'.pairs = Append(kv.pairs, [key |-> outcome'.key,
                                             value |-> outcome'.value])

\* iter(None) yields the pairs inserted with Ok, each once, from a key map
\* of the size and in the file the metadata name
StoreHoldsThePairs ==
    kv.open = "store" =>
        /\ kv.file = kv.metadata
        /\ Len(kv.heap) = kv.metadata.page_count
        /\ \E got \in {PairsOf(kv.heap, NoKey)} :
               /\ ~got.err
               /\ \A i \in 1..Len(got.pairs) : ~got.pairs[i].err
               /\ SeqBag([i \in 1..Len(got.pairs) |->
                             [key |-> got.pairs[i].key,
                              value |-> got.pairs[i].value]])
                      = SeqBag(kv.pairs)

\* C40: when KVStore::insert meets a full heap, the failed attempt has
\* written nothing to the old heap and the store is made anew as the next
\* revision with page_count + page_count / 2 pages; after the call returned
\* Ok, iter(None) yields every pair inserted before and the new pair, each
\* once, and the revision and page_count of the metadata are those of the
\* new file.
C40_FullHeapRebuildKeepsPairs ==
    /\ []StoreHoldsThePairs
    /\ [][FullHeapRebuilds]_vars

\* an insert that met the full heap of two pages, made the store of three
\* pages with the pairs of before, and returned Ok
C40_Witness ==
    /\ kv.open = "store"
    /\ outcome.op = "insert" /\ outcome.full /\ outcome.rebuilt
    /\ outcome.result = "ok"
    /\ kv.metadata = [revision |-> 1, page_count |-> 3]
    /\ Len(kv.pairs) >= 3

============================================================================
